---- MODULE Spec2Model ----
(***************************************************************************)
(* A model of dfcompu.py: the dataflow graph of recipe nodes, the node     *)
(* iterator (wrap_node_iterator), run_graph, simple_runner and             *)
(* thread_pool_runner.  Recipe bodies are sequences of abstract yields.    *)
(***************************************************************************)
EXTENDS Integers, Sequences, FiniteSets, TLC

\* ------------------------------------------------------------------ bounds
NumNodes == 3      \* nodes of the graph
MaxPool == 2       \* largest pool_size tried by thread_pool_runner(pool_size)
MaxRoots == 2      \* longest inputs tuple handed to run_graph
MaxRuns == 2       \* run_graph calls made one after the other on the same graph
MaxDirect == 1     \* direct calls of Node.set_result made after those

Nodes == 1..NumNodes
Workers == 1..MaxPool

\* ------------------------------------------------------------ graph data
\* An Input handle is <<n, o>>: o = 0 is the Node object n itself, o > 0 is a
\* NodeSubresultInput object created by n[o-1].
N(n) == <<n, 0>>
P(n, i) == <<n, i>>

\* len(recipe.result_names): nodes 1 and 4 are of a two-result recipe (like
\* next_fib), the others have the single result name 'result'.
TwoResultNodes == {1, 4}
NRes(n) == IF n \in TwoResultNodes THEN 2 ELSE 1

Handles == {N(n) : n \in Nodes} \cup {P(n, i) : n \in {m \in Nodes : NRes(m) > 1}, i \in 1..2}

\* What a recipe generator yields, one record per yield.
W(hs) == [op |-> "wait", hs |-> hs]      \* yield Wait(hs), then read hs
R == [op |-> "ret", hs |-> <<>>]         \* yield a plain value
Y(v) == [op |-> "ret", hs |-> <<>>, v |-> v]  \* yield the plain value v
F(h) == [op |-> "fwd", hs |-> <<h>>]     \* yield an Input as the result
X == [op |-> "raise", hs |-> <<>>]       \* raise ValueError('Bad luck.')
\* yield c.wait() on the ContextInput object id, then read c.get()
C(id, key) == [op |-> "ctx", hs |-> <<>>, id |-> id, key |-> key]

\* The graphs that are run: each gives every node its recipe body.
Graphs ==
  << \* next_fib chain: 3 needs 2 needs 1
     [n \in Nodes |-> CASE n = 1 -> <<R>>
                        [] n = 2 -> <<W(<<N(1)>>), R>>
                        [] OTHER -> <<W(<<N(2)>>), R>>],
     \* area(bad_luck, bad_luck), plus a node waiting for bad_luck too
     [n \in Nodes |-> CASE n = 1 -> <<X>>
                        [] n = 2 -> <<W(<<N(1)>>), R>>
                        [] OTHER -> <<W(<<N(1)>>), W(<<N(1)>>), R>>],
     \* cond(c, area, ...): waits for c, then yields the input area
     [n \in Nodes |-> CASE n = 1 -> <<R>>
                        [] n = 2 -> <<R>>
                        [] OTHER -> <<W(<<N(1)>>), F(N(2))>>],
     \* a generator recipe waiting for two inputs at once, one needing the other
     [n \in Nodes |-> CASE n = 1 -> <<R>>
                        [] n = 2 -> <<W(<<N(1)>>), R>>
                        [] OTHER -> <<W(<<N(2), N(1)>>), R>>],
     \* noop, a recipe yielding two values, a raw wait for a projection
     [n \in Nodes |-> CASE n = 1 -> <<>>
                        [] n = 2 -> <<R, R>>
                        [] OTHER -> <<W(<<P(1, 1)>>), R>>],
     \* a two-result recipe yielding a one-result input as its result
     [n \in Nodes |-> CASE n = 1 -> <<F(N(2))>>
                        [] n = 2 -> <<R>>
                        [] OTHER -> <<W(<<P(1, 2)>>), R>>],
     \* a generator recipe waiting at once for bad_luck and for another node
     [n \in Nodes |-> CASE n = 1 -> <<X>>
                        [] n = 2 -> <<R>>
                        [] OTHER -> <<W(<<N(2), N(1)>>), R>>]
  >>

\* Sequences over S of length at most k.
RECURSIVE SeqsUpTo(_, _)
SeqsUpTo(S, k) ==
  IF k = 0 THEN {<<>>}
  ELSE LET T == SeqsUpTo(S, k - 1)
       IN T \cup {Append(t, s) : t \in {u \in T : Len(u) = k - 1}, s \in S}

RootLists == SeqsUpTo(Handles, MaxRoots)

Runners == {[kind |-> "simple", k |-> 0]} \cup {[kind |-> "pool", k |-> k] : k \in 1..MaxPool}

RECURSIVE SumSeq(_)
SumSeq(s) == IF s = <<>> THEN 0 ELSE Head(s) + SumSeq(Tail(s))

Range(s) == {s[i] : i \in 1..Len(s)}

NoneVal == <<>>    \* Python None: the result field before set_result

VARIABLES
  body,            \* the graph: node -> what its recipe generator yields
  has_result,      \* Node.has_result
  result,          \* Node.result
  gen,             \* the state of each node's node_iterator
  phase,           \* "idle", or the runner run_graph is inside of
  runs,            \* run_graph calls made so far
  runner,          \* the runner of the current (or last) call
  inputs,          \* the inputs tuple of the current (or last) call
  outcome,         \* how the last call ended: "none", "ok" or the exception
  pending_inputs,  \* simple_runner's stack
  pool,            \* thread_pool_runner_run's locals, queues and worker threads
  hist,            \* history of the current call, for stating properties
  recipe,          \* node -> its Recipe: func_name, arg_names, has_varargs
  name,            \* Node.name
  node_inputs,     \* Node.inputs
  context,         \* ContextInput.context of every ContextInput object
  pre              \* what run_graph did before it called the runner, and direct calls

vars == <<body, has_result, result, gen, phase, runs, runner, inputs, outcome,
          pending_inputs, pool, hist, recipe, name, node_inputs, context, pre>>

\* What run_graph reads and writes of the nodes before it calls the runner.
nodevars == <<recipe, name, node_inputs, context, pre>>

\* ------------------------------------------------------------ ContextInput
\* A context is a dict object, known by its identity: 0 is None, NotADict some
\* object that is no dict, 1..NumDicts the dicts callers pass, and a larger
\* number the {} that run_graph makes for a call without a context.
NumDicts == 2
NoDict == 0
NotADict == -1
Dicts == 1..NumDicts

\* Strings are sequences of their '_'-separated words: 'b_context' is
\* <<"b", "context">>.  NoKey is the key None.
NoKey == <<>>

\* The items of a dict: dicts 1 and 2 are equal but not identical, the {} of a
\* call is empty.
DictContent(d) ==
  IF d \in Dicts THEN (<<"b">> :> 8) @@ (<<"x", "y">> :> 0) ELSE <<>>

\* Values read from a ContextInput: an item of the dict, or the dict itself.
IntVal(i) == [t |-> "int", v |-> i]
DictVal(d) == [t |-> "dict", v |-> d]
NoVal == [t |-> "none", v |-> 0]

\* ContextInput.is_available of the ContextInput object id, given the
\* .context of every ContextInput object.
ContextIsAvailable(ctx, id) == ctx[id] # NoDict

\* get with `if not context` for the test of line 85: an empty dict taken for
\* no context.
ContextGetTruthy(ctx, id, key) ==
  LET d == ctx[id]
  IN IF d = NoDict \/ DictContent(d) = <<>> THEN [exc |-> "ContextNotSet", val |-> NoVal]
     ELSE IF key = NoKey THEN [exc |-> "none", val |-> DictVal(d)]
     ELSE IF key \in DOMAIN DictContent(d)
     THEN [exc |-> "none", val |-> IntVal(DictContent(d)[key])]
     ELSE [exc |-> "KeyError", val |-> NoVal]

\* ContextInput.get: the exception raised or "none", and the value returned.
ContextGet(ctx, id, key) ==
  LET d == ctx[id]
  IN IF d = NoDict THEN [exc |-> "ContextNotSet", val |-> NoVal]
     ELSE IF key = NoKey THEN [exc |-> "none", val |-> DictVal(d)]
     ELSE IF key \in DOMAIN DictContent(d)
     THEN [exc |-> "none", val |-> IntVal(DictContent(d)[key])]
     ELSE [exc |-> "KeyError", val |-> NoVal]

\* ContextInput.wait: the exception raised, or "none" with EMPTY_WAIT returned.
ContextWaitError(ctx, id) == IF ctx[id] = NoDict THEN "CannotWait" ELSE "none"

\* set_context without the test of lines 99-100: a ContextInput that can be
\* bound again.
SetContextAgain(ctx, id, d) ==
  IF ctx[id] = d THEN [exc |-> "none", ctx |-> ctx]
  ELSE IF d = NotADict THEN [exc |-> "ContextMustBeDict", ctx |-> ctx]
  ELSE [exc |-> "none", ctx |-> [ctx EXCEPT ![id] = d]]

\* ContextInput.set_context(d): the exception raised or "none", and .context
\* afterwards.
SetContext(ctx, id, d) ==
  IF ctx[id] = d THEN [exc |-> "none", ctx |-> ctx]
  ELSE IF ctx[id] # NoDict THEN [exc |-> "ContextAlreadySet", ctx |-> ctx]
  ELSE IF d = NotADict THEN [exc |-> "ContextMustBeDict", ctx |-> ctx]
  ELSE [exc |-> "none", ctx |-> [ctx EXCEPT ![id] = d]]

\* What a recipe body makes of a value read from the context.
ValNum(val) == IF val.t = "int" THEN val.v ELSE 0

\* ------------------------------------------------------------- node state
\* The three mutable parts of the nodes, as one value.
NS == [hr |-> has_result, res |-> result, gen |-> gen]

\* A node_iterator that has not been started.
FreshGen == [pos |-> 1, mode |-> "start", acc |-> 0, st |-> "susp", exc |-> "none"]

\* Node.is_available / NodeSubresultInput.is_available
IsAvailable(ns, h) == ns.hr[h[1]]

\* Node.get / NodeSubresultInput.get: the exception raised, or "none".
GetError(ns, h) ==
  IF ~ns.hr[h[1]] THEN "NotAvailable"            \* RuntimeError('Node result not available yet.')
  ELSE IF h[2] > 0 /\ Len(ns.res[h[1]]) < h[2] THEN "TypeError"  \* None[i]
  ELSE "none"

\* Node.get / NodeSubresultInput.get: the value read.
GetValue(ns, h) ==
  IF h[2] = 0 THEN ns.res[h[1]] ELSE <<ns.res[h[1]][h[2]]>>

\* Node.wait / NodeSubresultInput.wait: the inputs of the Wait returned.
WaitInputs(ns, h) == IF ns.hr[h[1]] THEN <<>> ELSE <<N(h[1])>>

\* The first exception of reading hs in order, or "none".
RECURSIVE ReadError(_, _)
ReadError(ns, hs) ==
  IF hs = <<>> THEN "none"
  ELSE IF GetError(ns, Head(hs)) # "none" THEN GetError(ns, Head(hs))
  ELSE ReadError(ns, Tail(hs))

RECURSIVE ReadSum(_, _)
ReadSum(ns, hs) ==
  IF hs = <<>> THEN 0 ELSE SumSeq(GetValue(ns, Head(hs))) + ReadSum(ns, Tail(hs))

\* The value a recipe body computes from what it has read: deterministic.
Compute(n, acc) == [i \in 1..NRes(n) |-> n + acc + (i - 1)]

\* The plain value that yield p of the body of node n gives.
Yielded(n, p, acc) ==
  IF "v" \in DOMAIN body[n][p] THEN body[n][p].v ELSE Compute(n, acc)

\* Node.set_result: the exception raised, or "none".
SetResultError(ns, n, v) ==
  IF ns.hr[n] THEN "SetTwice"                    \* RuntimeError('Setting result multiple times.')
  ELSE IF NRes(n) > 1 /\ Len(v) # NRes(n) THEN "ValueError"
  ELSE "none"

\* The outcome of one next() on a node_iterator.
Out(kind, token, exc, g, set, val) ==
  [kind |-> kind, token |-> token, exc |-> exc, g |-> g, set |-> set, val |-> val]

Raise(e, g, set, val) ==
  Out("raise", <<>>, e, [g EXCEPT !.st = "fin", !.exc = e], set, val)

\* A wrap_node_iterator without the test of has_result at lines 271-272.
RECURSIVE ExecLax(_, _, _, _, _, _)
ExecLax(ns, n, p, acc, set, val) ==
  LET g == [pos |-> p, mode |-> "start", acc |-> acc, st |-> "susp", exc |-> "none"]
      b == body[n]
  IN IF p > Len(b)
     THEN IF set \/ ns.hr[n]
          THEN Out("stop", <<>>, "none", [g EXCEPT !.st = "fin"], set, val)
          ELSE Raise("NoValues", g, set, val)
     ELSE IF b[p].op = "raise" THEN Raise("BadLuck", g, set, val)
     ELSE IF b[p].op = "ctx" /\ ContextWaitError(context, b[p].id) # "none"
          THEN Raise(ContextWaitError(context, b[p].id), g, set, val)
     ELSE IF b[p].op = "ctx"
          THEN Out("yield", <<>>, "none", [g EXCEPT !.mode = "ctx"], set, val)
     ELSE IF b[p].op = "wait"
          THEN Out("yield", b[p].hs, "none", [g EXCEPT !.mode = "wait"], set, val)
     ELSE IF b[p].op = "fwd"
          THEN Out("yield", WaitInputs(ns, b[p].hs[1]), "none",
                   [g EXCEPT !.mode = "fwd"], set, val)
     ELSE LET v == Yielded(n, p, acc)
          IN IF SetResultError(ns, n, v) # "none"
             THEN Raise(SetResultError(ns, n, v), g, set, val)
             ELSE ExecLax(ns, n, p + 1, acc, TRUE, v)


\* wrap_node_iterator from body yield p on, with acc read so far; set says that
\* set_result(val) was called during this next().
RECURSIVE Exec(_, _, _, _, _, _)
Exec(ns, n, p, acc, set, val) ==
  LET g == [pos |-> p, mode |-> "start", acc |-> acc, st |-> "susp", exc |-> "none"]
      b == body[n]
  IN IF p > Len(b)
     THEN IF set \/ ns.hr[n]
          THEN Out("stop", <<>>, "none", [g EXCEPT !.st = "fin"], set, val)
          ELSE Raise("NoValues", g, set, val)
     ELSE IF b[p].op = "raise" THEN Raise("BadLuck", g, set, val)
     ELSE IF b[p].op = "ctx" /\ ContextWaitError(context, b[p].id) # "none"
          THEN Raise(ContextWaitError(context, b[p].id), g, set, val)
     ELSE IF set \/ ns.hr[n] THEN Raise("MultipleValues", g, set, val)
     ELSE IF b[p].op = "ctx"
          THEN Out("yield", <<>>, "none", [g EXCEPT !.mode = "ctx"], set, val)
     ELSE IF b[p].op = "wait"
          THEN Out("yield", b[p].hs, "none", [g EXCEPT !.mode = "wait"], set, val)
     ELSE IF b[p].op = "fwd"
          THEN Out("yield", WaitInputs(ns, b[p].hs[1]), "none",
                   [g EXCEPT !.mode = "fwd"], set, val)
     ELSE LET v == Yielded(n, p, acc)
          IN IF SetResultError(ns, n, v) # "none"
             THEN Raise(SetResultError(ns, n, v), g, set, val)
             ELSE Exec(ns, n, p + 1, acc, TRUE, v)

\* One next() on node n's node_iterator.
Advance(ns, n) ==
  LET g == ns.gen[n]
      b == body[n]
  IN CASE g.st = "fin" -> Out("stop", <<>>, "none", g, FALSE, NoneVal)
       [] g.st = "run" -> Out("raise", <<>>, "AlreadyExecuting", g, FALSE, NoneVal)
       [] g.mode = "start" -> Exec(ns, n, g.pos, g.acc, FALSE, NoneVal)
       [] g.mode = "wait" ->
            IF ReadError(ns, b[g.pos].hs) # "none"
            THEN Raise(ReadError(ns, b[g.pos].hs), g, FALSE, NoneVal)
            ELSE Exec(ns, n, g.pos + 1, g.acc + ReadSum(ns, b[g.pos].hs), FALSE, NoneVal)
       [] g.mode = "ctx" ->
            LET r == ContextGet(context, b[g.pos].id, b[g.pos].key)
            IN IF r.exc # "none" THEN Raise(r.exc, g, FALSE, NoneVal)
               ELSE Exec(ns, n, g.pos + 1, g.acc + ValNum(r.val), FALSE, NoneVal)
       [] OTHER ->
            LET h == b[g.pos].hs[1]
            IN IF GetError(ns, h) # "none"
               THEN Raise(GetError(ns, h), g, FALSE, NoneVal)
               ELSE IF SetResultError(ns, n, GetValue(ns, h)) # "none"
               THEN Raise(SetResultError(ns, n, GetValue(ns, h)), g, FALSE, NoneVal)
               ELSE Exec(ns, n, g.pos + 1, g.acc, TRUE, GetValue(ns, h))

\* The node state after a next() whose outcome is out, set_result included.
ApplyAdvance(ns, n, out) ==
  [hr |-> IF out.set THEN [ns.hr EXCEPT ![n] = TRUE] ELSE ns.hr,
   res |-> IF out.set THEN [ns.res EXCEPT ![n] = out.val] ELSE ns.res,
   gen |-> [ns.gen EXCEPT ![n] = out.g]]

\* _get_unavailable_input_nodes: the inputs not available yet.
GetUnavailableInputNodes(ns, wait_inputs) ==
  SelectSeq(wait_inputs, LAMBDA h : ~IsAvailable(ns, h))

\* The inputs of the most recent wait token node n's iterator yielded and is
\* suspended at (empty when it is not suspended at a yield).
LastWait(ns, n) ==
  LET g == ns.gen[n]
  IN IF g.st = "fin" \/ g.mode \in {"start", "ctx"} THEN <<>>
     ELSE IF g.mode = "wait" THEN body[n][g.pos].hs
     ELSE <<N(body[n][g.pos].hs[1][1])>>

WaitSatisfied(ns, n) == \A h \in Range(LastWait(ns, n)) : IsAvailable(ns, h)

\* ----------------------------------------------------------- simple_runner
\* Every node without a result, as a list.
RECURSIVE Unavailable(_, _)
Unavailable(ns, n) ==
  IF n \notin DOMAIN ns.hr THEN <<>>
  ELSE (IF ns.hr[n] THEN <<>> ELSE <<N(n)>>) \o Unavailable(ns, n + 1)

\* A simple_runner that takes pending_inputs[0] where line 441 takes the last
\* input: a queue for the stack.
SimpleNextFifo(ns, stack) ==
  LET top == stack[1]
      front == Tail(stack)
      out == Advance(ns, top[1])
      ns2 == ApplyAdvance(ns, top[1], out)
      res(a, b, e, adv) == [ns |-> a, stack |-> b, exc |-> e, adv |-> adv,
                            unsat |-> adv # 0 /\ ~WaitSatisfied(ns, top[1]),
                            raised |-> adv # 0 /\ out.exc = "BadLuck",
                            token |-> IF adv # 0 THEN out.token ELSE <<>>]
  IN IF IsAvailable(ns, top) THEN res(ns, front, "none", 0)
     ELSE CASE out.kind = "raise" -> res(ns2, stack, out.exc, top[1])
            [] out.kind = "yield" ->
                 res(ns2, stack \o GetUnavailableInputNodes(ns2, out.token), "none", top[1])
            [] OTHER ->
                 IF IsAvailable(ns2, top) THEN res(ns2, front, "none", top[1])
                 ELSE res(ns2, stack, "AssertionError", top[1])

\* A simple_runner that, when a node yields a wait token, puts every node
\* without a result on its stack rather than the inputs of the token.
SimpleNextEager(ns, stack) ==
  LET top == stack[Len(stack)]
      front == SubSeq(stack, 1, Len(stack) - 1)
      out == Advance(ns, top[1])
      ns2 == ApplyAdvance(ns, top[1], out)
      res(a, b, e, adv) == [ns |-> a, stack |-> b, exc |-> e, adv |-> adv,
                            unsat |-> adv # 0 /\ ~WaitSatisfied(ns, top[1]),
                            raised |-> adv # 0 /\ out.exc = "BadLuck",
                            token |-> IF adv # 0 THEN out.token ELSE <<>>]
  IN IF IsAvailable(ns, top) THEN res(ns, front, "none", 0)
     ELSE CASE out.kind = "raise" -> res(ns2, stack, out.exc, top[1])
            [] out.kind = "yield" ->
                 res(ns2, stack \o SelectSeq(Unavailable(ns2, 1), LAMBDA h : h # top)
                           \o GetUnavailableInputNodes(ns2, out.token), "none", top[1])
            [] OTHER ->
                 IF IsAvailable(ns2, top) THEN res(ns2, front, "none", top[1])
                 ELSE res(ns2, stack, "AssertionError", top[1])

\* One pass of simple_runner's loops: pop an available top, or one next() on
\* the top input's node_iterator and what the runner does with what it yields.
\* adv is the node advanced (0: none), unsat whether an input of its most
\* recent wait token was unavailable then, token the wait token it yielded.
SimpleNext(ns, stack) ==
  LET top == stack[Len(stack)]
      front == SubSeq(stack, 1, Len(stack) - 1)
      out == Advance(ns, top[1])
      ns2 == ApplyAdvance(ns, top[1], out)
      res(a, b, e, adv) == [ns |-> a, stack |-> b, exc |-> e, adv |-> adv,
                            unsat |-> adv # 0 /\ ~WaitSatisfied(ns, top[1]),
                            raised |-> adv # 0 /\ out.exc = "BadLuck",
                            token |-> IF adv # 0 THEN out.token ELSE <<>>]
  IN IF IsAvailable(ns, top) THEN res(ns, front, "none", 0)
     ELSE CASE out.kind = "raise" -> res(ns2, stack, out.exc, top[1])
            [] out.kind = "yield" ->
                 res(ns2, stack \o GetUnavailableInputNodes(ns2, out.token), "none", top[1])
            [] OTHER ->
                 IF IsAvailable(ns2, top) THEN res(ns2, front, "none", top[1])
                 ELSE res(ns2, stack, "AssertionError", top[1])

\* simple_runner from a given stack to its end: the final node state and "ok"
\* or the exception that leaves it.
RECURSIVE SimpleRun(_, _)
SimpleRun(ns, stack) ==
  IF stack = <<>> THEN [ns |-> ns, outcome |-> "ok"]
  ELSE LET r == SimpleNext(ns, stack)
       IN IF r.exc # "none" THEN [ns |-> r.ns, outcome |-> r.exc]
          ELSE SimpleRun(r.ns, r.stack)

\* ------------------------------------------------------ thread_pool_runner
StopMsg == <<0, 0>>     \* the None put on runnable_queue to stop a worker

NoOut == Out("none", <<>>, "none", FreshGen, FALSE, NoneVal)
IdleWorker == [pc |-> "off", cur |-> StopMsg, out |-> NoOut]

NoPool ==
  [blocked_nodes |-> <<>>, blockings |-> <<>>, nonblocked_nodes |-> {},
   abort_ary |-> FALSE, runnable_queue |-> <<>>, report_queue |-> <<>>,
   active_worker_thread_count |-> 0, pool_size |-> 0, cpc |-> "off", cexc |-> "none",
   w |-> [i \in Workers |-> IdleWorker]]

Report(t, node, blockers, exc) == [t |-> t, node |-> node, blockers |-> blockers, exc |-> exc]

\* dict operations on functions
DictSet(d, k, v) == [x \in DOMAIN d \cup {k} |-> IF x = k THEN v ELSE d[x]]
DictDel(d, k) == [x \in DOMAIN d \ {k} |-> d[x]]

\* list.remove(x): the list without the first x
RECURSIVE ListRemove(_, _)
ListRemove(l, x) ==
  IF l = <<>> THEN <<>>
  ELSE IF Head(l) = x THEN Tail(l) ELSE <<Head(l)>> \o ListRemove(Tail(l), x)

\* The loop over the blockers of a 'wait' report (lines 540-562).  c holds the
\* coordinator's locals bn (blocked_nodes), bl (blockings), nb (nonblocked_nodes),
\* rq (runnable_queue) and exc, the exception raised so far.
RECURSIVE WaitBlockers(_, _, _, _)
WaitBlockers(ns, c, node, blockers) ==
  IF blockers = <<>> \/ c.exc # "none" THEN c
  ELSE LET b == Head(blockers)
           c1 == IF IsAvailable(ns, b) THEN [c EXCEPT !.exc = "AssertionError"]
                 ELSE IF b \in DOMAIN c.bl
                 THEN IF node \in Range(c.bl[b]) THEN [c EXCEPT !.exc = "AssertionError"]
                      ELSE [c EXCEPT !.bl = DictSet(c.bl, b, Append(c.bl[b], node))]
                 ELSE [c EXCEPT !.bl = DictSet(c.bl, b, <<node>>)]
           c2 == IF c1.exc = "none" /\ b \notin DOMAIN c1.bn /\ b \notin c1.nb
                 THEN [c1 EXCEPT !.nb = c1.nb \cup {b}, !.rq = Append(c1.rq, b)]
                 ELSE c1
       IN WaitBlockers(ns, c2, node, Tail(blockers))

\* The coordinator on a ('wait', node, blockers) report (lines 533-563).
OnWait(ns, c, node, blockers) ==
  IF node \notin c.nb \/ node \in DOMAIN c.bn \/ IsAvailable(ns, node)
  THEN [c EXCEPT !.exc = "AssertionError"]
  ELSE WaitBlockers(ns, [c EXCEPT !.nb = c.nb \ {node}, !.bn = DictSet(c.bn, node, blockers)],
                    node, blockers)

\* The loop over the nodes a done node was blocking (lines 572-582).
RECURSIVE DoneBlocking(_, _, _, _)
DoneBlocking(ns, c, node, blocking) ==
  IF blocking = <<>> \/ c.exc # "none" THEN c
  ELSE LET bd == Head(blocking)
           c1 == IF bd \notin DOMAIN c.bn THEN [c EXCEPT !.exc = "AssertionError"]
                 ELSE IF node \notin Range(c.bn[bd]) THEN [c EXCEPT !.exc = "ValueError"]
                 ELSE LET rest == ListRemove(c.bn[bd], node)
                      IN IF rest # <<>> THEN [c EXCEPT !.bn = DictSet(c.bn, bd, rest)]
                         ELSE IF bd \in c.nb \/ IsAvailable(ns, bd)
                         THEN [c EXCEPT !.bn = DictDel(c.bn, bd), !.exc = "AssertionError"]
                         ELSE [c EXCEPT !.bn = DictDel(c.bn, bd), !.nb = c.nb \cup {bd},
                                        !.rq = Append(c.rq, bd)]
       IN DoneBlocking(ns, c1, node, Tail(blocking))

\* OnDone without `assert node.is_available()` (line 568): a coordinator that
\* takes a worker's word for it that the node is done.
OnDoneUnchecked(ns, c, node) ==
  IF node \notin c.nb \/ node \in DOMAIN c.bn
  THEN [c EXCEPT !.exc = "AssertionError"]
  ELSE LET blocking == IF node \in DOMAIN c.bl THEN c.bl[node] ELSE <<>>
           c1 == [c EXCEPT !.nb = c.nb \ {node},
                           !.bl = IF node \in DOMAIN c.bl THEN DictDel(c.bl, node) ELSE c.bl]
       IN DoneBlocking(ns, c1, node, blocking)

\* OnDone without `blockings.pop(node, None)` (line 570): the done node stays in
\* blockings.
OnDoneKeepsBlockings(ns, c, node) ==
  IF node \notin c.nb \/ node \in DOMAIN c.bn \/ ~IsAvailable(ns, node)
  THEN [c EXCEPT !.exc = "AssertionError"]
  ELSE LET blocking == IF node \in DOMAIN c.bl THEN c.bl[node] ELSE <<>>
           c1 == [c EXCEPT !.nb = c.nb \ {node}]
       IN DoneBlocking(ns, c1, node, blocking)

\* The coordinator on a ('done', node) report (lines 564-584).
OnDone(ns, c, node) ==
  IF node \notin c.nb \/ node \in DOMAIN c.bn \/ ~IsAvailable(ns, node)
  THEN [c EXCEPT !.exc = "AssertionError"]
  ELSE LET blocking == IF node \in DOMAIN c.bl THEN c.bl[node] ELSE <<>>
           c1 == [c EXCEPT !.nb = c.nb \ {node},
                           !.bl = IF node \in DOMAIN c.bl THEN DictDel(c.bl, node) ELSE c.bl]
       IN DoneBlocking(ns, c1, node, blocking)

\* ------------------------------------------------------------------ state
FreshNS ==
  [hr |-> [n \in Nodes |-> FALSE], res |-> [n \in Nodes |-> NoneVal],
   gen |-> [n \in Nodes |-> FreshGen]]

\* A direct call n.set_result(v): the exception it raised, and has_result and
\* result as they were before it.
NoDirect == [n |-> 0, exc |-> "none", had |-> FALSE, old |-> NoneVal]

DirectValues == {<<9>>, <<9, 9>>}

NoHist ==
  [stepped |-> {},       \* nodes whose node_iterator got a next() in this call
   unsat |-> FALSE,      \* a next() was made with an input of the node's most recent wait token unavailable
   raised |-> FALSE,     \* a recipe body has raised in this call
   late |-> FALSE,       \* a worker took a node from runnable_queue after a body had raised
   allavail |-> FALSE,   \* every input was available when the call was made
   rerun |-> FALSE,      \* the call repeats the inputs of a call that returned
   ndirect |-> 0,        \* direct calls of Node.set_result made
   direct |-> NoDirect,  \* the last of them
   pending |-> {},       \* the nodes of pending_inputs when the runner was called
   named |-> {},         \* the nodes of the wait tokens yielded in this call
   log |-> <<>>,         \* simple_runner: the nodes started and completed, in order
   failed |-> {}]        \* <<node, exception>> of the next() calls of this call that raised

Init ==
  /\ body \in Range(Graphs)
  /\ has_result = FreshNS.hr
  /\ result = FreshNS.res
  /\ gen = FreshNS.gen
  /\ phase = "idle"
  /\ runs = 0
  /\ runner = [kind |-> "simple", k |-> 0]
  /\ inputs = <<>>
  /\ outcome = "none"
  /\ pending_inputs = <<>>
  /\ pool = NoPool
  /\ hist = NoHist
  /\ recipe = <<>>
  /\ name = <<>>
  /\ node_inputs = <<>>
  /\ context = <<>>
  /\ pre = <<>>

SetNS(ns) ==
  /\ has_result' = ns.hr
  /\ result' = ns.res
  /\ gen' = ns.gen

\* thread_pool_runner_run up to the try (lines 498-517): the locals, the worker
\* threads started, the pending inputs put on runnable_queue.
StartPool(pending, k) ==
  [NoPool EXCEPT !.nonblocked_nodes = Range(pending),
                 !.runnable_queue = pending,
                 !.active_worker_thread_count = k,
                 !.pool_size = k,
                 !.cpc = IF pending = <<>> THEN "off" ELSE "loop",
                 !.w = [i \in Workers |-> IF i <= k THEN [IdleWorker EXCEPT !.pc = "check"]
                                          ELSE IdleWorker]]

\* run_graph(inputs, runner=rn) up to the call of the runner (lines 618-648), and
\* thread_pool_runner_run up to its try.  With nothing pending, `del node`
\* (line 517) raises UnboundLocalError: node was never bound by the for loop.
RunGraph(roots, rn) ==
  LET pending == GetUnavailableInputNodes(NS, roots)
  IN /\ phase = "idle"
     /\ runs < MaxRuns
     /\ runs' = runs + 1
     /\ inputs' = roots
     /\ runner' = rn
     /\ hist' = [NoHist EXCEPT !.allavail = (pending = <<>>),
                               !.rerun = (runs > 0 /\ outcome = "ok" /\ roots = inputs),
                               !.pending = {h[1] : h \in Range(pending)}]
     /\ IF rn.kind = "simple"
        THEN /\ phase' = "simple"
             /\ pending_inputs' = pending
             /\ pool' = NoPool
             /\ outcome' = "none"
        ELSE /\ pool' = StartPool(pending, rn.k)
             /\ pending_inputs' = <<>>
             /\ phase' = IF pending = <<>> THEN "idle" ELSE "pool"
             /\ outcome' = IF pending = <<>> THEN "UnboundLocalError" ELSE "none"
     /\ UNCHANGED <<nodevars, body, has_result, result, gen>>

\* What a next() on node n's iterator that took the nodes from ns to ns2 did:
\* it started the generator of n, it set the result of n (n = 0: no next()).
Events(ns, ns2, n) ==
  IF n = 0 THEN <<>>
  ELSE (IF ns.gen[n] = FreshGen THEN << <<"start", n>> >> ELSE <<>>)
       \o (IF ns2.hr[n] /\ ~ns.hr[n] THEN << <<"end", n>> >> ELSE <<>>)

\* The next() on node n's iterator with outcome out, when it raised.
Failed(n, out) == IF out.kind = "raise" THEN {<<n, out.exc>>} ELSE {}

\* simple_runner: one pass of its loop (lines 440-453).
SimpleStep ==
  /\ phase = "simple"
  /\ pending_inputs # <<>>
  /\ LET r == SimpleNext(NS, pending_inputs)
     IN /\ SetNS(r.ns)
        /\ pending_inputs' = r.stack
        /\ hist' = [hist EXCEPT !.stepped = IF r.adv = 0 THEN @ ELSE @ \cup {r.adv},
                                !.unsat = @ \/ r.unsat,
                                !.raised = @ \/ r.raised,
                                !.named = @ \cup {h[1] : h \in Range(r.token)},
                                !.log = @ \o Events(NS, r.ns, r.adv),
                                !.failed = IF r.adv = 0 THEN @
                                           ELSE @ \cup Failed(r.adv, Advance(NS, r.adv))]
        /\ phase' = IF r.exc = "none" THEN "simple" ELSE "idle"
        /\ outcome' = r.exc
  /\ UNCHANGED <<nodevars, body, runs, runner, inputs, pool>>

\* simple_runner returns, and run_graph returns inputs (line 650).
SimpleReturn ==
  /\ phase = "simple"
  /\ pending_inputs = <<>>
  /\ phase' = "idle"
  /\ outcome' = "ok"
  /\ UNCHANGED <<nodevars, body, has_result, result, gen, runs, runner, inputs, pending_inputs, pool, hist>>

\* ----------------------------------------------------- _run_worker_thread
PutReport(p, rep) == [p EXCEPT !.report_queue = Append(@, rep)]

SetWorker(p, i, pc, cur, out) == [p EXCEPT !.w[i] = [pc |-> pc, cur |-> cur, out |-> out]]

\* A worker that leaves its loop by an exception (lines 476-482).
WorkerRaises(p, i, e) ==
  SetWorker(PutReport(p, Report("exc", p.w[i].cur, <<>>, e)), i, "exited", StopMsg, NoOut)

\* The worker's `if abort_ary: break` (lines 462-463), then ('exit',) (line 483).
WCheckAbort(i) ==
  /\ pool.w[i].pc = "check"
  /\ pool' = IF pool.abort_ary
             THEN SetWorker(PutReport(pool, Report("exit", StopMsg, <<>>, "none")),
                            i, "exited", StopMsg, NoOut)
             ELSE SetWorker(pool, i, "get", StopMsg, NoOut)
  /\ UNCHANGED <<nodevars, body, has_result, result, gen, phase, runs, runner, inputs, outcome,
                 pending_inputs, hist>>

\* runnable_queue.get() (blocking), the None test and the assert (lines 464-467).
WGet(i) ==
  /\ pool.w[i].pc = "get"
  /\ pool.runnable_queue # <<>>
  /\ LET item == Head(pool.runnable_queue)
         p == [pool EXCEPT !.runnable_queue = Tail(@)]
     IN /\ pool' = IF item = StopMsg
                   THEN SetWorker(PutReport(p, Report("exit", StopMsg, <<>>, "none")),
                                  i, "exited", StopMsg, NoOut)
                   ELSE IF IsAvailable(NS, item)
                   THEN WorkerRaises(SetWorker(p, i, "get", item, NoOut), i, "AssertionError")
                   ELSE SetWorker(p, i, "step", item, NoOut)
        /\ hist' = IF item # StopMsg /\ ~IsAvailable(NS, item)
                   THEN [hist EXCEPT !.late = @ \/ hist.raised]
                   ELSE hist
  /\ UNCHANGED <<nodevars, body, has_result, result, gen, phase, runs, runner, inputs, outcome,
                 pending_inputs>>

\* What the worker does with the outcome of a next() that is over (lines 468-479).
AfterNext(p, i, ns, out) ==
  LET cur == p.w[i].cur
      wait_inputs == GetUnavailableInputNodes(ns, out.token)
  IN CASE out.kind = "raise" -> WorkerRaises(p, i, out.exc)
       [] out.kind = "stop" ->
            SetWorker(PutReport(p, Report("done", cur, <<>>, "none")), i, "check", StopMsg, NoOut)
       [] OTHER ->
            IF wait_inputs # <<>>
            THEN SetWorker(PutReport(p, Report("wait", cur, wait_inputs, "none")),
                           i, "check", StopMsg, NoOut)
            ELSE SetWorker(p, i, "step", cur, NoOut)

\* One next() on the node_iterator of the node the worker holds (line 468).  When
\* the next() calls set_result, this step ends after `self.has_result = True`
\* (line 328): other threads run before `self.result = result` (line 329).
WStep(i) ==
  /\ pool.w[i].pc = "step"
  /\ LET n == pool.w[i].cur[1]
         out == Advance(NS, n)
         h == [hist EXCEPT !.stepped = @ \cup {n},
                           !.unsat = @ \/ (gen[n].st = "susp" /\ ~WaitSatisfied(NS, n))]
     IN \/ /\ out.set
           /\ has_result' = [has_result EXCEPT ![n] = TRUE]
           /\ gen' = [gen EXCEPT ![n].st = "run"]
           /\ pool' = SetWorker(pool, i, "set", pool.w[i].cur, out)
           /\ hist' = h
           /\ UNCHANGED result
        \/ /\ ~out.set
           /\ gen' = [gen EXCEPT ![n] = out.g]
           /\ pool' = AfterNext(pool, i, NS, out)
           /\ hist' = [h EXCEPT !.raised = @ \/ (out.exc = "BadLuck"),
                                !.named = @ \cup {x[1] : x \in Range(out.token)},
                                !.failed = @ \cup Failed(n, out)]
           /\ UNCHANGED <<has_result, result>>
        \/ \* another worker is inside next() of the same generator object
           /\ gen[n].st = "susp"
           /\ \E j \in Workers \ {i} : pool.w[j].pc = "step" /\ pool.w[j].cur[1] = n
           /\ pool' = WorkerRaises(pool, i, "AlreadyExecuting")
           /\ hist' = [hist EXCEPT !.failed = @ \cup {<<n, "AlreadyExecuting">>}]
           /\ UNCHANGED <<has_result, result, gen>>
  /\ UNCHANGED <<nodevars, body, phase, runs, runner, inputs, outcome, pending_inputs>>

\* The rest of set_result (lines 329-330) and of that next().
WSet(i) ==
  /\ pool.w[i].pc = "set"
  /\ LET n == pool.w[i].cur[1]
         out == pool.w[i].out
     IN /\ result' = [result EXCEPT ![n] = out.val]
        /\ gen' = [gen EXCEPT ![n] = out.g]
        /\ pool' = AfterNext(pool, i, NS, out)
        /\ hist' = [hist EXCEPT !.raised = @ \/ (out.exc = "BadLuck"),
                                !.failed = @ \cup Failed(n, out)]
  /\ UNCHANGED <<nodevars, body, has_result, phase, runs, runner, inputs, outcome, pending_inputs>>

\* ------------------------------------------- thread_pool_runner_run, the try
Locals(p) ==
  [bn |-> p.blocked_nodes, bl |-> p.blockings, nb |-> p.nonblocked_nodes,
   rq |-> p.runnable_queue, exc |-> "none"]

\* The coordinator on one report (lines 524-590).
OnReport(ns, c, item) ==
  CASE item.t = "exc" -> [c EXCEPT !.exc = item.exc]
    [] item.t = "wait" -> OnWait(ns, c, item.node, item.blockers)
    [] item.t = "done" -> OnDone(ns, c, item.node)
    [] OTHER -> [c EXCEPT !.exc = "AssertionError"]

RECURSIVE StopMsgs(_)
StopMsgs(k) == IF k = 0 THEN <<>> ELSE <<StopMsg>> \o StopMsgs(k - 1)

\* What thread_pool_runner_run ends with once the finally clause is over
\* (lines 604-605, or the exception of the try re-raised).
PoolOutcome(p) ==
  IF p.cexc # "none" THEN p.cexc
  ELSE IF DOMAIN p.blocked_nodes # {} \/ DOMAIN p.blockings # {} THEN "BlockedInTheEnd"
  ELSE "ok"

\* The finally clause up to its drain loop (lines 592-595).
Teardown(p) ==
  [p EXCEPT !.abort_ary = TRUE,
            !.runnable_queue = @ \o StopMsgs(p.pool_size),
            !.cpc = IF p.active_worker_thread_count > 0 THEN "drain" ELSE "off"]

\* The pool state p after a coordinator step, and the end of the call when the
\* coordinator is through.
CoordSet(p) ==
  /\ pool' = p
  /\ phase' = IF p.cpc = "off" THEN "idle" ELSE "pool"
  /\ outcome' = IF p.cpc = "off" THEN PoolOutcome(p) ELSE "none"

\* One pass of `while nonblocked_nodes` (lines 520-590); when the loop is left,
\* by an exception or with nonblocked_nodes empty, the finally clause begins.
CoordReport ==
  /\ phase = "pool"
  /\ pool.cpc = "loop"
  /\ pool.report_queue # <<>>
  /\ LET item == Head(pool.report_queue)
         c == OnReport(NS, Locals(pool), item)
         p == [pool EXCEPT !.report_queue = Tail(@),
                           !.blocked_nodes = c.bn, !.blockings = c.bl,
                           !.nonblocked_nodes = c.nb, !.runnable_queue = c.rq,
                           !.cexc = c.exc,
                           !.active_worker_thread_count =
                              IF item.t = "exc" THEN @ - 1 ELSE @]
     IN CoordSet(IF c.exc # "none" \/ c.nb = {} THEN Teardown(p) ELSE p)
  /\ UNCHANGED <<nodevars, body, has_result, result, gen, runs, runner, inputs, pending_inputs, hist>>

\* One pass of the drain loop of the finally clause (lines 596-599).
CoordDrain ==
  /\ phase = "pool"
  /\ pool.cpc = "drain"
  /\ pool.report_queue # <<>>
  /\ LET item == Head(pool.report_queue)
         cnt == IF item.t \in {"exc", "exit"} THEN pool.active_worker_thread_count - 1
                ELSE pool.active_worker_thread_count
     IN CoordSet([pool EXCEPT !.report_queue = Tail(@),
                              !.active_worker_thread_count = cnt,
                              !.cpc = IF cnt > 0 THEN "drain" ELSE "off"])
  /\ UNCHANGED <<nodevars, body, has_result, result, gen, runs, runner, inputs, pending_inputs, hist>>

\* ------------------------------------------------------- Node.set_result
\* n.set_result(v) called from outside the node iterator (lines 318-330), once
\* the run_graph calls are over.
CallSetResult(n, v) ==
  LET e == SetResultError(NS, n, v)
  IN /\ phase = "idle"
     /\ runs = MaxRuns
     /\ hist.ndirect < MaxDirect
     /\ hist' = [hist EXCEPT !.ndirect = @ + 1,
                             !.direct = [n |-> n, exc |-> e, had |-> has_result[n],
                                         old |-> result[n]]]
     /\ has_result' = IF e = "none" THEN [has_result EXCEPT ![n] = TRUE] ELSE has_result
     /\ result' = IF e = "none" THEN [result EXCEPT ![n] = v] ELSE result
     /\ UNCHANGED <<nodevars, body, gen, phase, runs, runner, inputs, outcome, pending_inputs, pool>>

Next ==
  \/ \E roots \in RootLists, rn \in Runners : RunGraph(roots, rn)
  \/ \E n \in Nodes, v \in DirectValues : CallSetResult(n, v)
  \/ SimpleStep
  \/ SimpleReturn
  \/ \E i \in Workers : WCheckAbort(i)
  \/ \E i \in Workers : WGet(i)
  \/ \E i \in Workers : WStep(i)
  \/ \E i \in Workers : WSet(i)
  \/ CoordReport
  \/ CoordDrain

Spec == Init /\ [][Next]_vars

\* ======================================================= graphs of recipes
\* The second specification, SpecPrep, runs graphs built from the recipes of
\* the module with Recipe.node(...), contexts included, under simple_runner.
NumPNodes == 6     \* nodes of such a graph
NumCtx == 2        \* ContextInput objects made by the builder of the graph
MaxArgs == 3       \* most arguments of a recipe
MaxPRoots == 1     \* longest inputs tuple handed to run_graph
MaxPRuns == 2      \* run_graph calls made one after the other
MaxCalls == 1      \* direct calls of ContextInput methods

PNodes == 1..NumPNodes
PHandles == {N(n) : n \in PNodes} \cup {P(n, i) : n \in TwoResultNodes, i \in 1..2}

\* A ContextInput object is <<0, c>> when the builder made it, and <<n, i>> when
\* _fix_context_inputs made it for input i of node n.
CtxIds == {<<0, c>> : c \in 1..NumCtx} \cup {<<n, i>> : n \in PNodes, i \in 1..MaxArgs}
NoId == <<0, 0>>
NoHandle == <<0, 0>>

\* An argument of Recipe.node, an input of a node, an item of an InputSequence.
In(k, val, id, key, items, h) ==
  [k |-> k, val |-> val, id |-> id, key |-> key, items |-> items, h |-> h]
Raw(v) == In("raw", v, NoId, NoKey, <<>>, NoHandle)           \* a number, no Input
RawNone == In("rawnone", 0, NoId, NoKey, <<>>, NoHandle)      \* None
RawSeq(items) == In("rawseq", 0, NoId, NoKey, items, NoHandle) \* InputSequence(*items)
Const(v) == In("const", v, NoId, NoKey, <<>>, NoHandle)       \* ConstantInput(v)
ConstNone == In("none", 0, NoId, NoKey, <<>>, NoHandle)       \* ConstantInput(None)
ConstSeq(items) == In("seq", 0, NoId, NoKey, items, NoHandle) \* ConstantInput(InputSequence)
Ctx(id, key) == In("ctx", 0, id, key, <<>>, NoHandle)         \* ContextInput(key)
NodeIn(h) == In("node", 0, NoId, NoKey, <<>>, h)              \* Node, NodeSubresultInput

\* isinstance(x, Input)
IsInput(x) == x.k \in {"const", "none", "seq", "ctx", "node"}

\* A Recipe: f says what the function does with its arguments.
Rec(func_name, arg_names, has_varargs, is_generator, f) ==
  [func_name |-> func_name, arg_names |-> arg_names, has_varargs |-> has_varargs,
   is_generator |-> is_generator, f |-> f]

\* The recipes of the module (lines 666-734).
area == Rec("area", << <<"a">>, <<"b">> >>, FALSE, FALSE, "value")
circumference == Rec("circumference", << <<"a">>, <<"b">> >>, FALSE, FALSE, "value")
next_fib == Rec("next_fib", << <<"a">>, <<"b">> >>, FALSE, FALSE, "value")
cond == Rec("cond", << <<"c">>, <<"true", "input">>, <<"false", "input">> >>, FALSE, FALSE, "cond")
or_all == Rec("or_all", <<>>, TRUE, TRUE, "or_all")
noop == Rec("noop", <<>>, FALSE, TRUE, "noop")
add_tuple == Rec("add_tuple", << <<"a">>, <<"b">> >>, FALSE, FALSE, "value")
cmul == Rec("cmul", << <<"a">>, <<"b", "context">> >>, FALSE, FALSE, "value")
xkeys == Rec("xkeys", << <<"context">> >>, FALSE, FALSE, "value")
bad_luck == Rec("bad_luck", <<>>, FALSE, FALSE, "raise")

\* arg_name == 'context' or arg_name.endswith('_context')
IsContextName(arg_name) ==
  arg_name = <<"context">> \/ (Len(arg_name) >= 2 /\ arg_name[Len(arg_name)] = "context")

\* arg_name.endswith('_input')
IsInputName(arg_name) == Len(arg_name) >= 2 /\ arg_name[Len(arg_name)] = "input"

\* Recipe._prepare_args(*args): the inputs of the node, or the exception
\* raised.  Without args the **kwargs branch makes a None of every argument.
PrepareArgs(rec, args0) ==
  LET args == IF args0 = <<>> THEN [i \in 1..Len(rec.arg_names) |-> RawNone] ELSE args0
      wrapped == [i \in 1..Len(args) |->
                    CASE args[i].k = "raw" -> Const(args[i].val)
                      [] args[i].k = "rawnone" -> ConstNone
                      [] args[i].k = "rawseq" -> ConstSeq(args[i].items)
                      [] OTHER -> args[i]]
      missing == {i \in (Len(args) + 1)..Len(rec.arg_names) : ~IsContextName(rec.arg_names[i])}
      filled == [i \in 1..Len(rec.arg_names) |->
                   IF i <= Len(args) THEN wrapped[i] ELSE ConstNone]
      all == IF Len(args) < Len(rec.arg_names) THEN filled ELSE wrapped
  IN IF Len(args) < Len(rec.arg_names) /\ missing # {}
     THEN [exc |-> "MissingArgs", inputs |-> <<>>]
     ELSE IF (~rec.has_varargs /\ Len(all) # Len(rec.arg_names))
             \/ (rec.has_varargs /\ Len(all) < Len(rec.arg_names))
     THEN [exc |-> "WrongNumber", inputs |-> <<>>]
     ELSE [exc |-> "none", inputs |-> all]

\* Input.is_available of an input, given the nodes' has_result and the
\* ContextInputs' .context.
InAvailable(hr, ctx, x) ==
  CASE x.k = "node" -> hr[x.h[1]]
    [] x.k = "ctx" -> ContextIsAvailable(ctx, x.id)
    [] OTHER -> TRUE

\* The items of todo.extend(...) for the inputs xs (lines 350-353, 364-365,
\* 369-372): the unavailable Inputs that are not in cache.  Only Node objects
\* are ever in cache.
Extension(hr, ctx, cache, xs) ==
  SelectSeq(xs, LAMBDA x : /\ IsInput(x)
                           /\ ~InAvailable(hr, ctx, x)
                           /\ ~(x.k = "node" /\ x.h[2] = 0 /\ x.h[1] \in cache))

\* The InputSequence items to extend todo with, for the inputs xs in order.
RECURSIVE SeqExtension(_, _, _, _)
SeqExtension(hr, ctx, cache, xs) ==
  IF xs = <<>> THEN <<>>
  ELSE (IF Head(xs).k = "seq" THEN Extension(hr, ctx, cache, Head(xs).items) ELSE <<>>)
       \o SeqExtension(hr, ctx, cache, Tail(xs))

\* The first loop of _find_all_nodes (lines 347-355).
RECURSIVE FirstTodo(_, _, _)
FirstTodo(hr, ctx, xs) ==
  IF xs = <<>> THEN <<>>
  ELSE (IF Head(xs).k = "seq" THEN Extension(hr, ctx, {}, Head(xs).items) ELSE <<Head(xs)>>)
       \o FirstTodo(hr, ctx, Tail(xs))

\* The second loop with todo used as a stack: what a node adds is looked at
\* before the rest of todo, depth first.
RECURSIVE FindLoopDepthFirst(_, _, _, _, _, _, _)
FindLoopDepthFirst(hr, ctx, nin, todo, i, cache, res) ==
  IF i > Len(todo) THEN res
  ELSE LET x == todo[i]
           n == x.h[1]
       IN IF ~InAvailable(hr, ctx, x) /\ x.k = "node" /\ n \notin cache
          THEN LET cache2 == cache \cup {n}
               IN FindLoopDepthFirst(hr, ctx, nin,
                           SubSeq(todo, 1, i) \o Extension(hr, ctx, cache2, nin[n])
                                \o SeqExtension(hr, ctx, cache2, nin[n])
                                \o SubSeq(todo, i + 1, Len(todo)),
                           i + 1, cache2, Append(res, n))
          ELSE FindLoopDepthFirst(hr, ctx, nin, todo, i + 1, cache, res)

\* The second loop of _find_all_nodes (lines 357-372), from todo[i] on.
RECURSIVE FindLoop(_, _, _, _, _, _, _)
FindLoop(hr, ctx, nin, todo, i, cache, res) ==
  IF i > Len(todo) THEN res
  ELSE LET x == todo[i]
           n == x.h[1]
       IN IF ~InAvailable(hr, ctx, x) /\ x.k = "node" /\ n \notin cache
          THEN LET cache2 == cache \cup {n}
               IN FindLoop(hr, ctx, nin,
                           todo \o Extension(hr, ctx, cache2, nin[n])
                                \o SeqExtension(hr, ctx, cache2, nin[n]),
                           i + 1, cache2, Append(res, n))
          ELSE FindLoop(hr, ctx, nin, todo, i + 1, cache, res)

\* _find_all_nodes(inputs): the list of nodes returned.
FindAllNodes(hr, ctx, nin, xs) == FindLoop(hr, ctx, nin, FirstTodo(hr, ctx, xs), 1, {}, <<>>)

\* A node name is the func_name of the recipe and the numbers of the '#%d'
\* suffixes appended to it.
FreshName(rec) == [base |-> rec.func_name, sfx |-> <<>>]

\* The first two loops of _rename_nodes (lines 377-384): node_name_counts.
NameCounts(nm, nodes) ==
  LET names == {nm[nodes[i]] : i \in 1..Len(nodes)}
      cnt(x) == Cardinality({i \in 1..Len(nodes) : nm[nodes[i]] = x})
  IN [x \in {y \in names : cnt(y) > 1} |-> cnt(x)]

\* The last loop of _rename_nodes (lines 385-390), with nodes[i] the next node.
RECURSIVE RenameLoop(_, _, _, _)
RenameLoop(nm, nodes, i, counts) ==
  IF i = 0 THEN nm
  ELSE LET node == nodes[i]
           nam == nm[node]
       IN IF nam \in DOMAIN counts
          THEN RenameLoop([nm EXCEPT ![node].sfx = Append(@, counts[nam])], nodes, i - 1,
                          [counts EXCEPT ![nam] = @ - 1])
          ELSE RenameLoop(nm, nodes, i - 1, counts)

\* _rename_nodes(nodes): the names afterwards.
RenameNodes(nm, nodes) == RenameLoop(nm, nodes, Len(nodes), NameCounts(nm, nodes))

\* _fix_context_inputs with the whole argument name for the key of line 417.
FixInputsWholeName(rec, n, ins) ==
  [i \in 1..Len(ins) |->
     IF i <= Len(rec.arg_names) /\ ins[i].k = "none" /\ IsContextName(rec.arg_names[i])
     THEN IF rec.arg_names[i] = <<"context">>
          THEN Ctx(<<n, i>>, NoKey)
          ELSE Ctx(<<n, i>>, rec.arg_names[i])
     ELSE ins[i]]

\* _fix_context_inputs on one node: its inputs afterwards.
FixInputs(rec, n, ins) ==
  [i \in 1..Len(ins) |->
     IF i <= Len(rec.arg_names) /\ ins[i].k = "none" /\ IsContextName(rec.arg_names[i])
     THEN IF rec.arg_names[i] = <<"context">>
          THEN Ctx(<<n, i>>, NoKey)
          ELSE Ctx(<<n, i>>, SubSeq(rec.arg_names[i], 1, Len(rec.arg_names[i]) - 1))
     ELSE ins[i]]

\* _fix_context_inputs(nodes): every node's inputs afterwards.
FixContextInputs(rc, nin, nodes) ==
  [n \in DOMAIN nin |-> IF n \in Range(nodes) THEN FixInputs(rc[n], n, nin[n]) ELSE nin[n]]

\* yield_inputs(input): the list of what it yields.  For an InputSequence it
\* yields `input` itself (line 398) once for every item that is an Input.
YieldInputs(x) ==
  IF x.k = "seq"
  THEN LET its == SelectSeq(x.items, IsInput)
       IN [j \in 1..Len(its) |-> x]
  ELSE <<x>>

\* Every input2 that _add_context_to_node_inputs looks at, in order.
RECURSIVE YieldAll(_)
YieldAll(xs) == IF xs = <<>> THEN <<>> ELSE YieldInputs(Head(xs)) \o YieldAll(Tail(xs))

RECURSIVE NodesYield(_, _)
NodesYield(nin, nodes) ==
  IF nodes = <<>> THEN <<>> ELSE YieldAll(nin[Head(nodes)]) \o NodesYield(nin, Tail(nodes))

\* The set_context calls of _add_context_to_node_inputs, up to the first one
\* that raises.
RECURSIVE BindAll(_, _, _)
BindAll(ctx, xs, d) ==
  IF xs = <<>> THEN [exc |-> "none", ctx |-> ctx]
  ELSE IF Head(xs).k # "ctx" THEN BindAll(ctx, Tail(xs), d)
  ELSE LET r == SetContext(ctx, Head(xs).id, d)
       IN IF r.exc # "none" THEN r ELSE BindAll(r.ctx, Tail(xs), d)

\* _add_context_to_node_inputs(nodes, context)
AddContextToNodeInputs(ctx, nin, nodes, d) == BindAll(ctx, NodesYield(nin, nodes), d)

\* ---------------------------------------------------------- recipe bodies
\* `yield x.wait()` and `x.get()` on the Input x, as yields of the body.
InputOps(x) ==
  CASE x.k = "node" -> <<W(<<x.h>>)>>
    [] x.k = "ctx" -> <<C(x.id, x.key)>>
    [] OTHER -> <<W(<<>>)>>

RECURSIVE ItemOps(_)
ItemOps(items) ==
  IF items = <<>> THEN <<>>
  ELSE (IF IsInput(Head(items)) THEN InputOps(Head(items)) ELSE <<>>) \o ItemOps(Tail(items))

\* The loop of function_recipe_generator over its args (lines 109-125), from
\* argument i on.
RECURSIVE ArgOps(_, _, _)
ArgOps(rec, ins, i) ==
  IF i > Len(ins) THEN <<>>
  ELSE (IF i > Len(rec.arg_names) \/ IsInputName(rec.arg_names[i]) THEN <<>>
        ELSE IF ins[i].k = "seq" THEN ItemOps(ins[i].items)
        ELSE InputOps(ins[i]))
       \o ArgOps(rec, ins, i + 1)

\* bool(value) of what an input gives.  Nodes compute positive numbers and
\* non-empty tuples (Compute); the graphs test no value read from a context.
Truthy(x) ==
  CASE x.k = "const" -> x.val # 0
    [] x.k = "none" -> FALSE
    [] x.k = "seq" -> x.items # <<>>
    [] OTHER -> TRUE

\* An Input yielded as the result (lines 275-277): the wrapper waits for it and
\* sets its value.
ForwardOps(x) == IF x.k = "node" THEN <<F(x.h)>> ELSE InputOps(x) \o <<R>>

\* or_all (lines 700-708): waits for its arguments in turn up to the first
\* true one, which it yields.
RECURSIVE OrAllOps(_)
OrAllOps(ins) ==
  IF ins = <<>> THEN <<>>
  ELSE InputOps(Head(ins)) \o (IF Truthy(Head(ins)) THEN <<R>> ELSE OrAllOps(Tail(ins)))

\* What the generator of the recipe yields when called with the inputs ins.
RecipeBody(rec, ins) ==
  CASE rec.f = "noop" -> <<>>
    [] rec.f = "or_all" -> OrAllOps(ins)
    [] rec.f = "raise" -> ArgOps(rec, ins, 1) \o <<X>>
    [] rec.f = "cond" ->
         ArgOps(rec, ins, 1) \o ForwardOps(IF Truthy(ins[1]) THEN ins[2] ELSE ins[3])
    [] OTHER -> ArgOps(rec, ins, 1) \o <<R>>

\* ------------------------------------------------------- the graphs built
\* Each graph gives every node its recipe and the arguments of Recipe.node.
PrepGraphs ==
  << \* build_acr_graph of the test, and add_tuple(InputSequence(5, area), 7)
     [recipe |-> <<next_fib, area, circumference, next_fib, cond, add_tuple>>,
      args |-> << <<Raw(5), Const(7)>>,
                  <<Raw(5), Const(7)>>,
                  <<Raw(5), Const(7)>>,
                  <<Const(7), NodeIn(P(1, 2))>>,
                  <<NodeIn(P(4, 2)), NodeIn(N(2)), NodeIn(N(3))>>,
                  <<RawSeq(<<Raw(5), NodeIn(N(2))>>), Raw(7)>> >>],
     \* context arguments: omitted, None, a ContextInput shared by two nodes,
     \* a ContextInput inside an InputSequence
     [recipe |-> <<next_fib, cmul, cmul, next_fib, xkeys, add_tuple>>,
      args |-> << <<Raw(1), Raw(2)>>,
                  <<Raw(5)>>,
                  <<Raw(5), Ctx(<<0, 1>>, <<"x", "y">>)>>,
                  <<NodeIn(N(3)), Ctx(<<0, 1>>, <<"x", "y">>)>>,
                  <<RawNone>>,
                  <<RawSeq(<<Raw(5), NodeIn(N(2)), Ctx(<<0, 2>>, <<"b">>)>>), Raw(7)>> >>],
     \* four nodes of one recipe
     [recipe |-> <<next_fib, cmul, cmul, next_fib, cmul, cmul>>,
      args |-> << <<Raw(1), Raw(2)>>,
                  <<Raw(1)>>,
                  <<NodeIn(N(2)), Raw(1)>>,
                  <<NodeIn(P(1, 1)), RawNone>>,
                  <<Raw(1), Raw(1)>>,
                  <<NodeIn(N(5)), NodeIn(N(2))>> >>],
     \* bad_luck, cond taking its false branch, or_all, noop
     [recipe |-> <<next_fib, bad_luck, cond, next_fib, or_all, noop>>,
      args |-> << <<Raw(1), Raw(2)>>,
                  <<>>,
                  <<Raw(0), NodeIn(N(2)), NodeIn(P(1, 1))>>,
                  <<NodeIn(N(3)), NodeIn(N(6))>>,
                  <<Raw(0), RawNone, NodeIn(N(3))>>,
                  <<>> >>]
  >>

\* The recipe and the arguments of node n of graph g; a node beyond those
\* listed is a noop node.
RecipeOf(g, n) == IF n \in DOMAIN g.recipe THEN g.recipe[n] ELSE noop
ArgsOf(g, n) == IF n \in DOMAIN g.args THEN g.args[n] ELSE <<>>

\* Node.__init__ (lines 283-290) for every node of graph g: its inputs.
BuiltInputs(g) == [n \in PNodes |-> PrepareArgs(RecipeOf(g, n), ArgsOf(g, n)).inputs]

\* The yields of every node's generator.  The generator is called with
\* node.inputs at the first next() (line 268), which comes after
\* _fix_context_inputs has gone over the node.
BuiltBodies(g) ==
  [n \in PNodes |-> RecipeBody(RecipeOf(g, n), FixInputs(RecipeOf(g, n), n, BuiltInputs(g)[n]))]

\* The ContextInput objects among inputs xs and the items of their sequences.
RECURSIVE CtxIn(_)
CtxIn(xs) ==
  IF xs = <<>> THEN {}
  ELSE (CASE Head(xs).k = "ctx" -> {Head(xs)}
          [] Head(xs).k \in {"seq", "rawseq"} -> CtxIn(Head(xs).items)
          [] OTHER -> {})
       \cup CtxIn(Tail(xs))

\* The ContextInput objects of the graph.
CtxObjects(nin) == UNION {CtxIn(nin[n]) : n \in DOMAIN nin}

FreshPNS ==
  [hr |-> [n \in PNodes |-> FALSE], res |-> [n \in PNodes |-> NoneVal],
   gen |-> [n \in PNodes |-> FreshGen]]

\* The last direct call of set_context and of get/is_available.
NoSetCall == [k |-> 0, id |-> NoId, d |-> NoDict, before |-> NoDict, exc |-> "none"]
NoGetCall == [id |-> NoId, key |-> NoKey, bound |-> NoDict, avail |-> FALSE,
              exc |-> "none", val |-> NoVal]

\* How run_graph was called: directly, or by the run method of a node or of a
\* sub-result handle h, which was given the options context d and runner rn.
Call(m, h, d, rn) == [m |-> m, h |-> h, d |-> d, rn |-> rn]
Direct == Call("run_graph", NoHandle, NoDict, [kind |-> "simple", k |-> 0])

\* What the last run_graph call found and did before it called the runner.
NoPre(g) ==
  [args |-> [n \in PNodes |-> ArgsOf(g, n)], \* the arguments the nodes were built with
   nodes |-> <<>>,                           \* the list _find_all_nodes returned
   pending |-> <<>>,                         \* pending_inputs
   dict |-> NoDict,                          \* the context of the call
   hr0 |-> [n \in PNodes |-> FALSE],         \* has_result on entry
   name0 |-> [n \in PNodes |-> FreshName(RecipeOf(g, n))],   \* names on entry
   in0 |-> BuiltInputs(g),                   \* node.inputs on entry
   ctx0 |-> [c \in CtxIds |-> NoDict],       \* .context on entry
   exc |-> "none",                           \* what the preamble raised
   ncalls |-> 0,                             \* direct calls made
   sc |-> NoSetCall,
   get |-> NoGetCall,
   call |-> Direct]                          \* how the last run_graph call was made

\* The state once the nodes of graph g are built.
InitGraph(g) ==
    /\ \A n \in PNodes : PrepareArgs(RecipeOf(g, n), ArgsOf(g, n)).exc = "none"
    /\ recipe = [n \in PNodes |-> RecipeOf(g, n)]
    /\ node_inputs = BuiltInputs(g)
    /\ name = [n \in PNodes |-> FreshName(RecipeOf(g, n))]
    /\ context = [c \in CtxIds |-> NoDict]
    /\ body = BuiltBodies(g)
    /\ has_result = FreshPNS.hr
    /\ result = FreshPNS.res
    /\ gen = FreshPNS.gen
    /\ phase = "idle"
    /\ runs = 0
    /\ runner = [kind |-> "simple", k |-> 0]
    /\ inputs = <<>>
    /\ outcome = "none"
    /\ pending_inputs = <<>>
    /\ pool = NoPool
    /\ hist = NoHist
    /\ pre = NoPre(g)

InitPrep == \E g \in Range(PrepGraphs) : InitGraph(g)

PRootLists == SeqsUpTo(PHandles, MaxPRoots)

\* The context argument of run_graph: None, a dict, or something else.
ContextArgs == {NoDict, NotADict} \cup Dicts

\* run_graph(roots, context=d, runner=rn) up to the call of the runner (lines
\* 618-648), and thread_pool_runner_run up to its try; call says who called it.
PrepRunAs(roots, d, rn, call) ==
  LET dict == IF d = NoDict THEN NumDicts + runs + 1 ELSE d
      pending == GetUnavailableInputNodes(NS, roots)
      nodes == FindAllNodes(has_result, context, node_inputs,
                            [i \in 1..Len(pending) |-> NodeIn(pending[i])])
      fixed == FixContextInputs(recipe, node_inputs, nodes)
      bound == AddContextToNodeInputs(context, fixed, nodes, dict)
  IN /\ phase = "idle"
     /\ runs < MaxPRuns
     /\ runs' = runs + 1
     /\ inputs' = roots
     /\ runner' = rn
     /\ name' = RenameNodes(name, nodes)
     /\ node_inputs' = fixed
     /\ context' = bound.ctx
     /\ pre' = [pre EXCEPT !.nodes = nodes, !.pending = pending, !.dict = dict,
                           !.hr0 = has_result, !.name0 = name, !.in0 = node_inputs,
                           !.ctx0 = context, !.exc = bound.exc, !.call = call]
     /\ hist' = [NoHist EXCEPT !.allavail = (pending = <<>>),
                               !.rerun = (runs > 0 /\ outcome = "ok" /\ roots = inputs),
                               !.pending = {h[1] : h \in Range(pending)}]
     /\ IF bound.exc # "none"
        THEN /\ phase' = "idle"
             /\ pending_inputs' = <<>>
             /\ pool' = NoPool
             /\ outcome' = bound.exc
        ELSE IF rn.kind = "simple"
        THEN /\ phase' = "simple"
             /\ pending_inputs' = pending
             /\ pool' = NoPool
             /\ outcome' = "none"
        ELSE /\ pool' = StartPool(pending, rn.k)
             /\ pending_inputs' = <<>>
             /\ phase' = IF pending = <<>> THEN "idle" ELSE "pool"
             /\ outcome' = IF pending = <<>> THEN "UnboundLocalError" ELSE "none"
     /\ UNCHANGED <<recipe, body, has_result, result, gen>>

\* run_graph(roots, context=d, runner=rn) called directly.
PrepRun(roots, d, rn) == PrepRunAs(roots, d, rn, Direct)

\* run_graph(roots, context=d), with simple_runner.
PrepRunGraph(roots, d) == PrepRun(roots, d, [kind |-> "simple", k |-> 0])

\* c.set_context(d) called on a ContextInput of the graph, between calls of
\* run_graph.
CallSetContext(x, d) ==
  LET r == SetContext(context, x.id, d)
  IN /\ phase = "idle"
     /\ pre.ncalls < MaxCalls
     /\ context' = r.ctx
     /\ pre' = [pre EXCEPT !.ncalls = @ + 1,
                           !.sc = [k |-> pre.ncalls + 1, id |-> x.id, d |-> d,
                                   before |-> context[x.id], exc |-> r.exc]]
     /\ UNCHANGED <<recipe, name, node_inputs, body, has_result, result, gen, phase, runs,
                    runner, inputs, outcome, pending_inputs, pool, hist>>

\* c.is_available() and c.get() called on a ContextInput of the graph.
CallContextGet(x) ==
  LET r == ContextGet(context, x.id, x.key)
  IN /\ phase = "idle"
     /\ pre.ncalls < MaxCalls
     /\ pre' = [pre EXCEPT !.ncalls = @ + 1,
                           !.get = [id |-> x.id, key |-> x.key, bound |-> context[x.id],
                                    avail |-> ContextIsAvailable(context, x.id),
                                    exc |-> r.exc, val |-> r.val]]
     /\ UNCHANGED <<recipe, name, node_inputs, context, body, has_result, result, gen, phase,
                    runs, runner, inputs, outcome, pending_inputs, pool, hist>>

NextPrep ==
  \/ \E roots \in PRootLists, d \in ContextArgs : PrepRunGraph(roots, d)
  \/ \E x \in CtxObjects(node_inputs), d \in ContextArgs : CallSetContext(x, d)
  \/ \E x \in CtxObjects(node_inputs) : CallContextGet(x)
  \/ SimpleStep
  \/ SimpleReturn

SpecPrep == InitPrep /\ [][NextPrep]_vars

\* ================================================================ properties
\* A call of run_graph is over.
Returned == phase = "idle" /\ runs >= 1

\* The call that is over was the first one on the graph, made with the pool.
FirstPoolRunOver == phase = "idle" /\ runs = 1 /\ runner.kind = "pool" /\ hist.ndirect = 0

\* What simple_runner makes of the same inputs on an identical, fresh graph.
SimpleOnFresh == SimpleRun(FreshNS, GetUnavailableInputNodes(FreshNS, inputs))

\* C1: a graph run with thread_pool_runner(k) ends as an identical graph run
\* with simple_runner does: it returns exactly when the other returns, and then
\* every root holds the same value.
C1_RunnerEquivalence ==
  FirstPoolRunOver =>
    /\ (outcome = "ok") = (SimpleOnFresh.outcome = "ok")
    /\ outcome = "ok" =>
         \A h \in Range(inputs) :
            /\ IsAvailable(NS, h)
            /\ GetValue(NS, h) = GetValue(SimpleOnFresh.ns, h)

\* C2: when run_graph returns normally, under either runner, every input of the
\* returned tuple is available; otherwise it ended with an exception.
C2_ReturnedInputsAvailable ==
  Returned => \/ outcome # "ok"
              \/ \A h \in Range(inputs) : IsAvailable(NS, h)

\* C2: a call with the pool, with two roots, that stepped nodes and returned.
C2_Witness ==
  /\ Returned
  /\ outcome = "ok"
  /\ runner.kind = "pool"
  /\ Len(inputs) = MaxRoots
  /\ hist.stepped # {}

\* C3: under thread_pool_runner(k) no worker steps a node again while a blocker
\* of the wait it reported has not completed (first call on the graph).
C3_BlockersCompleteBeforeResume ==
  (runner.kind = "pool" /\ runs = 1) => ~hist.unsat

\* C4: under simple_runner a node's coroutine is advanced only when every input
\* of the most recent wait token it yielded is available.
C4_SimpleAdvancesOnlySatisfied ==
  runner.kind = "simple" => ~hist.unsat

\* C5: the result slot of a node is filled at most once: is_available() is true
\* exactly when a result is stored, and a set_result on a filled slot raises
\* RuntimeError and leaves the stored result as it was.
C5_OnceSet ==
  /\ \A n \in Nodes : IsAvailable(NS, N(n)) <=> (result[n] # NoneVal)
  /\ (hist.direct.n # 0 /\ hist.direct.had) =>
        /\ hist.direct.exc = "SetTwice"
        /\ result[hist.direct.n] = hist.direct.old

\* C6: run_graph called again on the tuple a completed call returned, with any
\* runner, raises nothing and steps no node coroutine.
C6_Idempotent ==
  hist.rerun => /\ hist.stepped = {}
                /\ phase = "idle" => outcome = "ok"

\* C7: a node whose recipe body raised has its result slot filled (with the
\* exception), so that it is available afterwards.
C7_ExceptionStored ==
  \A n \in Nodes : gen[n].exc = "BadLuck" => IsAvailable(NS, N(n))

\* C8: a call during which a recipe body raised ends with exactly that recipe
\* exception, under either runner.
C8_FailsWithRecipeException ==
  (Returned /\ hist.raised) => outcome = "BadLuck"

\* C9: once a recipe body has raised in a call, simple_runner advances nothing
\* more and no worker of the pool takes a further node to step.
C9_NothingStartsAfterRaise ==
  /\ ~hist.late
  /\ (runner.kind = "simple" /\ hist.raised) => phase = "idle"

\* C10: when thread_pool_runner_run is over, however it ended once its workers
\* were started, teardown is complete: the abort flag is set, one stop sentinel
\* per worker was enqueued, the live-worker count is zero and every worker has
\* sent its 'exc' or 'exit' and is gone.
C10_TeardownCompletes ==
  (Returned /\ runner.kind = "pool") =>
     /\ pool.abort_ary
     /\ pool.active_worker_thread_count = 0
     /\ \A i \in 1..runner.k : pool.w[i].pc = "exited"

\* ------------------------------------------------- both runners, scenario 7
\* The fourth specification, SpecAcr, runs the graph of build_acr_graph and
\* the graph with bad_luck under both runners, without a context argument.
AcrGraphs == {PrepGraphs[1], PrepGraphs[4]}

InitAcr == \E g \in AcrGraphs : InitGraph(g)

\* The inputs tuples: every input alone, and the pairs of nodes 2 and 3.
AcrRootLists == PRootLists \cup {<<N(a), N(b)>> : a, b \in {2, 3}}

NextAcr ==
  \/ \E roots \in AcrRootLists, rn \in Runners : PrepRun(roots, NoDict, rn)
  \/ SimpleStep
  \/ SimpleReturn
  \/ \E i \in Workers : WCheckAbort(i)
  \/ \E i \in Workers : WGet(i)
  \/ \E i \in Workers : WStep(i)
  \/ \E i \in Workers : WSet(i)
  \/ CoordReport
  \/ CoordDrain

SpecAcr == InitAcr /\ [][NextAcr]_vars

\* ------------------------------------------------------- _find_all_nodes
\* Another specification, SpecFind, calls _find_all_nodes(inputs) on the
\* graphs above with any of the nodes available and any list of inputs.
MaxFindRoots == 2   \* longest list handed to _find_all_nodes

\* The inputs _find_all_nodes is called with: nodes, sub-results, an
\* InputSequence, a ContextInput.
FindRoots ==
  {NodeIn(h) : h \in PHandles}
    \cup {ConstSeq(<<NodeIn(N(3)), Raw(5), NodeIn(P(1, 1))>>), Ctx(<<0, 1>>, NoKey)}

InitFind ==
  \E g \in Range(PrepGraphs) :
    /\ recipe = [n \in PNodes |-> RecipeOf(g, n)]
    /\ node_inputs = BuiltInputs(g)
    /\ name = [n \in PNodes |-> FreshName(RecipeOf(g, n))]
    /\ context \in {[c \in CtxIds |-> NoDict], [c \in CtxIds |-> 1]}
    /\ body = BuiltBodies(g)
    /\ has_result \in [PNodes -> BOOLEAN]
    /\ result = [n \in PNodes |-> IF has_result[n] THEN Compute(n, 0) ELSE NoneVal]
    /\ gen = FreshPNS.gen
    /\ phase = "idle"
    /\ runs = 0
    /\ runner = [kind |-> "simple", k |-> 0]
    /\ inputs = <<>>
    /\ outcome = "none"
    /\ pending_inputs = <<>>
    /\ pool = NoPool
    /\ hist = NoHist
    /\ pre = NoPre(g)

\* nodes = _find_all_nodes(xs): inputs holds xs afterwards, pre.nodes the list
\* returned.
FindNodes(xs) ==
  /\ runs = 0
  /\ runs' = 1
  /\ inputs' = xs
  /\ pre' = [pre EXCEPT !.nodes = FindAllNodes(has_result, context, node_inputs, xs),
                        !.hr0 = has_result, !.ctx0 = context]
  /\ UNCHANGED <<recipe, name, node_inputs, context, body, has_result, result, gen, phase,
                 runner, outcome, pending_inputs, pool, hist>>

NextFind == \E xs \in SeqsUpTo(FindRoots, MaxFindRoots) : FindNodes(xs)

SpecFind == InitFind /\ [][NextFind]_vars

\* ============================================== properties of graph set-up
\* run_graph got as far as calling the runner in its last call.
PreambleDone == runs >= 1 /\ pre.exc = "none"

\* C11: before any node is scheduled, run_graph has bound the context of the
\* call to every ContextInput reachable from a discovered node, those that are
\* items of an InputSequence argument included, so that no node body fails
\* waiting for such a placeholder.
C11_ContextBoundEverywhere ==
  PreambleDone =>
    /\ \A n \in Range(pre.nodes) : \A x \in CtxIn(node_inputs[n]) : context[x.id] = pre.dict
    /\ \A n \in PNodes : gen[n].exc # "CannotWait"

\* What a step does that holds a direct call c.set_context(d).
SetContextCalled ==
  LET c == pre'.sc
  IN /\ (c.before = NoDict /\ c.d \in Dicts) =>
          c.exc = "none" /\ context' = [context EXCEPT ![c.id] = c.d]
     /\ (c.before # NoDict /\ c.d = c.before) => c.exc = "none" /\ context' = context
     /\ (c.before # NoDict /\ c.d # c.before) =>
          c.exc = "ContextAlreadySet" /\ context' = context

\* C12: a ContextInput is bound at most once: no step, of run_graph or of a
\* direct call, changes a binding that is set; set_context(d) binds an unbound
\* ContextInput to the dict d, is a no-op without error when d is the dict it
\* is bound to, and raises RuntimeError and changes nothing when d is anything
\* else.
C12_BoundAtMostOnce ==
  [][/\ \A c \in CtxIds : context[c] # NoDict => context'[c] = context[c]
     /\ pre'.sc # pre.sc => SetContextCalled]_vars

\* C12: set_context was called with another dict on a ContextInput that
\* run_graph had bound.
C12_Witness ==
  /\ runs >= 1
  /\ pre.sc.before # NoDict
  /\ pre.sc.d \in Dicts \ {pre.sc.before}
  /\ pre.sc.exc = "ContextAlreadySet"
  /\ context[pre.sc.id] = pre.sc.before

\* C13: get() on a ContextInput(key) bound to the dict C of a run returns
\* C[key] when C has the key, C itself when key is None (an empty C included),
\* and raises KeyError when C has no such key; an unbound ContextInput is not
\* available and its get() raises.
C13_ContextGet ==
  pre.get.id # NoId =>
    LET g == pre.get
        items == DictContent(g.bound)
    IN /\ g.avail = (g.bound # NoDict)
       /\ g.bound = NoDict => g.exc = "ContextNotSet"
       /\ (g.bound # NoDict /\ g.key = NoKey) => g.exc = "none" /\ g.val = DictVal(g.bound)
       /\ (g.bound # NoDict /\ g.key # NoKey /\ g.key \in DOMAIN items) =>
            g.exc = "none" /\ g.val = IntVal(items[g.key])
       /\ (g.bound # NoDict /\ g.key # NoKey /\ g.key \notin DOMAIN items) =>
            g.exc = "KeyError"

\* C13: get() was called on a ContextInput(None) that a run without a context
\* argument had bound to its empty dict.
C13_Witness ==
  /\ runs >= 1
  /\ pre.get.id # NoId
  /\ pre.get.key = NoKey
  /\ pre.get.bound = pre.dict
  /\ pre.get.bound \notin Dicts \cup {NoDict, NotADict}
  /\ pre.get.exc = "none"

\* Input i of node n is for a parameter named 'context' or '..._context', and
\* the builder of the node left the argument out or gave None for it.
ContextArgLeftOut(n, i) ==
  /\ i <= Len(recipe[n].arg_names)
  /\ IsContextName(recipe[n].arg_names[i])
  /\ (i > Len(pre.args[n]) \/ pre.args[n][i].k = "rawnone")

\* C14: once run_graph has discovered a node, every input of it that stands
\* for a context parameter left out or given as None is a ContextInput, with
\* key None for 'context' and the name without its '_context' otherwise; every
\* other input of the node is the one the node was built with, and the inputs
\* of the nodes not discovered are as they were.
C14_ContextInputsWired ==
  runs >= 1 =>
    /\ \A n \in Range(pre.nodes) : \A i \in 1..Len(node_inputs[n]) :
         IF ContextArgLeftOut(n, i)
         THEN /\ node_inputs[n][i].k = "ctx"
              /\ node_inputs[n][i].key =
                   IF recipe[n].arg_names[i] = <<"context">> THEN NoKey
                   ELSE SubSeq(recipe[n].arg_names[i], 1, Len(recipe[n].arg_names[i]) - 1)
         ELSE node_inputs[n][i] = PrepareArgs(recipe[n], pre.args[n]).inputs[i]
    /\ \A n \in PNodes \ Range(pre.nodes) : node_inputs[n] = pre.in0[n]

\* C14: a discovered node was built without its trailing b_context argument.
C14_Witness ==
  /\ runs >= 1
  /\ \E n \in Range(pre.nodes) : \E i \in 1..Len(node_inputs[n]) :
        /\ ContextArgLeftOut(n, i)
        /\ i > Len(pre.args[n])
        /\ pre.in0[n][i] = ConstNone
        /\ node_inputs[n][i].key = <<"b">>

\* The discovered nodes that had the name of the i-th of them on entry.
Family(i) == {j \in 1..Len(pre.nodes) : pre.name0[pre.nodes[j]] = pre.name0[pre.nodes[i]]}

\* C15: after _rename_nodes the names of the discovered nodes are pairwise
\* distinct, whatever their names were on entry; a name that only one of them
\* had is unchanged, and of the nodes that shared a name the one discovered
\* first has got the suffix '#1'.
C15_NamesDistinct ==
  runs >= 1 =>
    /\ \A i, j \in 1..Len(pre.nodes) :
         i # j => name[pre.nodes[i]] # name[pre.nodes[j]]
    /\ \A i \in 1..Len(pre.nodes) :
         name[pre.nodes[i]] =
           IF Family(i) = {i} THEN pre.name0[pre.nodes[i]]
           ELSE IF \A j \in Family(i) : i <= j
           THEN [pre.name0[pre.nodes[i]] EXCEPT !.sfx = Append(@, 1)]
           ELSE name[pre.nodes[i]]

\* The nodes the inputs xs stand for: a sub-result stands for its node, an
\* InputSequence for the nodes of its items.
RECURSIVE Members(_)
Members(xs) ==
  IF xs = <<>> THEN {}
  ELSE (CASE Head(xs).k = "node" -> {Head(xs).h[1]}
          [] Head(xs).k = "seq" -> {x.h[1] : x \in {y \in Range(Head(xs).items) : y.k = "node"}}
          [] OTHER -> {})
       \cup Members(Tail(xs))

\* The nodes without a result at most k inputs away from the inputs of the
\* call, going through nodes without a result only.
RECURSIVE Within(_)
Within(k) ==
  IF k = 0 THEN {n \in Members(inputs) : ~has_result[n]}
  ELSE Within(k - 1)
         \cup {m \in UNION {Members(node_inputs[n]) : n \in Within(k - 1)} : ~has_result[m]}

Depth(n) == CHOOSE k \in 0..NumPNodes : n \in Within(k) /\ (k = 0 \/ n \notin Within(k - 1))

\* The nodes of xs without a result, each once, in the order of xs.
RECURSIVE RootOrder(_, _)
RootOrder(xs, seen) ==
  IF xs = <<>> THEN <<>>
  ELSE LET x == Head(xs)
           ns == IF x.k = "node" THEN <<x>>
                 ELSE IF x.k = "seq" THEN SelectSeq(x.items, LAMBDA y : y.k = "node")
                 ELSE <<>>
           new == IF ns = <<>> THEN <<>>
                  ELSE IF has_result[ns[1].h[1]] \/ ns[1].h[1] \in seen THEN <<>>
                  ELSE <<ns[1].h[1]>>
       IN IF ns = <<>> THEN RootOrder(Tail(xs), seen)
          ELSE new \o RootOrder(<<[x EXCEPT !.k = "seq", !.items = Tail(ns)]>> \o Tail(xs),
                                seen \cup Range(new))

\* C16: _find_all_nodes(inputs) returns the nodes without a result that can be
\* reached from the inputs through nodes without a result, a sub-result
\* standing for its node and an InputSequence for its items: every one of
\* them, each once, the nearer to the inputs the earlier, and the nodes of
\* the inputs first, in the order of the inputs.
C16_FindAllNodes ==
  runs = 1 =>
    LET nodes == pre.nodes
        roots == RootOrder(inputs, {})
    IN /\ Range(nodes) = Within(NumPNodes)
       /\ \A i, j \in 1..Len(nodes) : i < j =>
            nodes[i] # nodes[j] /\ Depth(nodes[i]) <= Depth(nodes[j])
       /\ SubSeq(nodes, 1, Len(roots)) = roots

\* C16: a call that found nodes at three distances, one of them through a
\* sub-result and one through an InputSequence, while a node it came to had
\* a result already.
C16_Witness ==
  /\ runs = 1
  /\ \E n \in Range(pre.nodes) : Depth(n) = 2
  /\ \E n \in Range(pre.nodes) : \E x \in Range(node_inputs[n]) : x.k = "seq"
  /\ \E n \in Range(pre.nodes) : \E x \in Range(node_inputs[n]) :
        x.k = "node" /\ x.h[2] > 0 /\ x.h[1] \in Range(pre.nodes)
  /\ \E n \in Range(pre.nodes) : \E m \in Members(node_inputs[n]) : has_result[m]

\* C17: under either runner a node is stepped only if it is one of the pending
\* inputs of the call or was named in a wait token that a stepped node
\* yielded; a discovered node that is neither is never stepped and stays
\* without a result.
C17_Lazy ==
  /\ hist.stepped \subseteq hist.pending \cup hist.named
  /\ \A n \in Range(pre.nodes) \ (hist.pending \cup hist.named) :
        n \notin hist.stepped /\ ~has_result[n]

\* C17: the pool has run the graph of build_acr_graph from cond, and
\* circumference, which was discovered, was not stepped and has no result.
C17_Witness ==
  /\ Returned
  /\ outcome = "ok"
  /\ runner.kind = "pool"
  /\ runner.k = MaxPool
  /\ \E n \in Range(pre.nodes) :
        /\ recipe[n].func_name = "circumference"
        /\ n \notin hist.stepped
        /\ ~has_result[n]
  /\ \E n \in hist.stepped : recipe[n].func_name = "cond" /\ has_result[n]

\* The list s from its last item to its first.
Reverse(s) == [i \in 1..Len(s) |-> s[Len(s) + 1 - i]]

\* The nodes that node n waits for, wait token by wait token; of the inputs of
\* one token the last is the first that the stack of simple_runner gives.
RECURSIVE BlockersFrom(_, _)
BlockersFrom(n, p) ==
  IF p > Len(body[n]) THEN <<>>
  ELSE (IF body[n][p].op \in {"wait", "fwd"} THEN Reverse(body[n][p].hs) ELSE <<>>)
       \o BlockersFrom(n, p + 1)

\* The depth-first schedule: a node without a result starts, then every node
\* it waits for that has no result yet goes through the same, in the order the
\* body waits for them, then the node completes.
RECURSIVE Visit(_, _)
RECURSIVE VisitAll(_, _)
Visit(n, done) ==
  IF n \in done THEN [log |-> <<>>, done |-> done]
  ELSE LET r == VisitAll(BlockersFrom(n, 1), done)
       IN [log |-> << <<"start", n>> >> \o r.log \o << <<"end", n>> >>,
           done |-> r.done \cup {n}]

VisitAll(hs, done) ==
  IF hs = <<>> THEN [log |-> <<>>, done |-> done]
  ELSE LET a == Visit(Head(hs)[1], done)
           b == VisitAll(Tail(hs), a.done)
       IN [log |-> a.log \o b.log, done |-> b.done]

\* The schedule of the first call on the graph.
DfsLog == VisitAll(Reverse(inputs), {}).log

IsPrefix(s, t) == Len(s) <= Len(t) /\ s = SubSeq(t, 1, Len(s))

\* The log with node names for the nodes.
NamedLog == [i \in 1..Len(hist.log) |-> <<hist.log[i][1], name[hist.log[i][2]]>>]

Named(base, k) == [base |-> base, sfx |-> IF k = 0 THEN <<>> ELSE <<k>>]

\* The first call ran the graph of build_acr_graph from cond, with
\* simple_runner, and is over.
Scenario7 ==
  /\ runs = 1
  /\ runner.kind = "simple"
  /\ phase = "idle"
  /\ recipe[2] = area
  /\ inputs = <<N(5)>>

\* C18: under simple_runner the starts and completions of the nodes follow the
\* depth-first schedule, a function of the graph and the inputs: every moment
\* of a first call has a prefix of it behind it and a call that returns has
\* all of it; in scenario 7 it is cond start, next_fib#1 start, next_fib#2
\* start and end, next_fib#1 end, area start and end, cond end.
C18_DepthFirst ==
  (runs = 1 /\ runner.kind = "simple") =>
    /\ IsPrefix(hist.log, DfsLog)
    /\ (phase = "idle" /\ outcome = "ok") => hist.log = DfsLog
    /\ Scenario7 =>
         /\ outcome = "ok"
         /\ NamedLog = << <<"start", Named("cond", 0)>>,
                          <<"start", Named("next_fib", 1)>>,
                          <<"start", Named("next_fib", 2)>>,
                          <<"end", Named("next_fib", 2)>>,
                          <<"end", Named("next_fib", 1)>>,
                          <<"start", Named("area", 0)>>,
                          <<"end", Named("area", 0)>>,
                          <<"end", Named("cond", 0)>> >>

\* C18: scenario 7 has been run to its end.
C18_Witness == Scenario7 /\ outcome = "ok" /\ Len(hist.log) = 8

\* The body of node n has no yield of a terminal value: neither a plain value
\* nor an Input.
NoTerminal(n) == \A p \in 1..Len(body[n]) : body[n][p].op \notin {"ret", "fwd"}

\* The body of node n has run to its end.
BodyFinished(n) == gen[n].st = "fin" /\ gen[n].pos > Len(body[n])

\* A next() of this call on node n raised
\* RuntimeError('No values yielded by recipe iterator.').
RaisedNoValues(n) == <<n, "NoValues">> \in hist.failed

\* The body of a node ran to its end without a terminal value: the next() that
\* ended it raised 'No values yielded by recipe iterator.' and the node has no
\* result.
NoValuesRaised ==
  \A n \in Nodes :
    (BodyFinished(n) /\ NoTerminal(n) /\ hist.ndirect = 0) =>
      gen[n].exc = "NoValues" /\ ~has_result[n]

\* A call in which such a next() was made fails with that error.
NoValuesFailsRun ==
  \A n \in Nodes : (phase = "idle" /\ RaisedNoValues(n)) => outcome = "NoValues"

\* C19: when a recipe body finishes without yielding a terminal value, the
\* next() on its node raises 'No values yielded by recipe iterator.', the
\* run_graph call fails with that error, and the node has no result.
C19_NoValues == NoValuesRaised /\ NoValuesFailsRun

\* ============================================ yields after the terminal value
\* The specification SpecMulti runs, with every runner, recipes whose bodies go
\* on after their terminal value.
MultiGraphs ==
  << Graphs[5],
     \* a second plain value; an Input as the result, then a wait
     [n \in Nodes |-> CASE n = 1 -> <<R>>
                        [] n = 2 -> <<R, Y(<<8>>)>>
                        [] OTHER -> <<F(N(2)), W(<<N(1)>>)>>],
     \* an Input as the result, then the empty wait; then a plain value
     [n \in Nodes |-> CASE n = 1 -> <<R>>
                        [] n = 2 -> <<F(N(1)), W(<<>>)>>
                        [] OTHER -> <<W(<<N(2)>>), F(P(1, 2)), Y(<<8>>)>>] >>

InitMulti ==
  /\ body \in Range(MultiGraphs)
  /\ has_result = FreshNS.hr
  /\ result = FreshNS.res
  /\ gen = FreshNS.gen
  /\ phase = "idle"
  /\ runs = 0
  /\ runner = [kind |-> "simple", k |-> 0]
  /\ inputs = <<>>
  /\ outcome = "none"
  /\ pending_inputs = <<>>
  /\ pool = NoPool
  /\ hist = NoHist
  /\ recipe = <<>>
  /\ name = <<>>
  /\ node_inputs = <<>>
  /\ context = <<>>
  /\ pre = <<>>

SpecMulti == InitMulti /\ [][Next]_vars

\* The first yield of a terminal value in the body of node n (0: none).
FirstTerminal(n) ==
  LET ps == {p \in 1..Len(body[n]) : body[n][p].op \in {"ret", "fwd"}}
  IN IF ps = {} THEN 0 ELSE CHOOSE p \in ps : \A q \in ps : p <= q

\* The body of node n yields again right after its terminal value.
YieldsAfterTerminal(n) ==
  /\ FirstTerminal(n) \in 1..(Len(body[n]) - 1)
  /\ body[n][FirstTerminal(n) + 1].op # "raise"

\* The terminal value: the plain value, or what the yielded Input holds.
FirstTerminalValue(n) ==
  LET p == FirstTerminal(n)
  IN IF body[n][p].op = "fwd" THEN GetValue(NS, body[n][p].hs[1])
     ELSE Yielded(n, p, gen[n].acc)

\* What the body of node n can have got as its terminal value.  A node yielded
\* as the result is read with get() (line 277); when another thread is then
\* between lines 328 and 329 of its set_result, get() gives None.
TerminalValues(n) ==
  LET p == FirstTerminal(n)
  IN {FirstTerminalValue(n)}
     \cup (IF body[n][p].op = "fwd" /\ body[n][p].hs[1][2] = 0 THEN {NoneVal} ELSE {})

\* The only run_graph call so far is one with simple_runner.
OneSimpleCall == runs = 1 /\ runner.kind = "simple"

\* A next() of this call on node n raised
\* RuntimeError('Multiple values yielded by recipe iterator.').
RaisedMultipleValues(n) == <<n, "MultipleValues">> \in hist.failed

\* C20: when a recipe body yields again after its terminal value (a second
\* plain value, or any yield after an Input yielded as the result), the next()
\* that reaches that yield raises 'Multiple values yielded by recipe
\* iterator.' and the result of the node stays the first terminal value.
C20_MultipleValues ==
  \A n \in Nodes :
    /\ RaisedMultipleValues(n) =>
         /\ has_result[n]
         /\ result[n] \in TerminalValues(n)
         /\ OneSimpleCall => result[n] = FirstTerminalValue(n)
    /\ (hist.ndirect = 0 /\ has_result[n] /\ gen[n].st = "fin" /\ YieldsAfterTerminal(n)) =>
         /\ gen[n].exc = "MultipleValues"
         /\ gen[n].pos = FirstTerminal(n) + 1
         /\ result[n] \in TerminalValues(n)

\* C20: a body yielded a wait after an Input given as its result, another a
\* second plain value, and both next() calls raised.
C20_Witness ==
  /\ body = MultiGraphs[2]
  /\ phase = "idle"
  /\ RaisedMultipleValues(3)
  /\ gen[2].exc = "MultipleValues"
  /\ result[3] = result[2]
  /\ result[2] = Compute(2, 0)

\* ========================================================= early reclamation
\* The nodes that the run_graph call and its runner hold: the inputs tuple,
\* pending_inputs, and the queues, sets and dicts of thread_pool_runner_run.
HeldNodes ==
  {h[1] : h \in Range(inputs) \cup Range(pending_inputs)
                \cup pool.nonblocked_nodes \cup DOMAIN pool.blocked_nodes
                \cup DOMAIN pool.blockings
                \cup (Range(pool.runnable_queue) \ {StopMsg})}

\* The nodes at most k references away from those: node.inputs holds the
\* references from one node to others.
RECURSIVE ReachedIn(_)
ReachedIn(k) ==
  IF k = 0 THEN HeldNodes
  ELSE ReachedIn(k - 1) \cup UNION {Members(node_inputs[n]) : n \in ReachedIn(k - 1)}

ReachedNodes == ReachedIn(NumPNodes)

\* The nodes that had node m among their inputs on entry to the call.
Readers(m) == {n \in PNodes : m \in Members(pre.in0[n])}

\* C21: once run_graph has discovered and renamed the nodes and wired the
\* contexts, the inputs list of every discovered node is severed; so when the
\* only reader of a node has got its own result, no reference from the inputs
\* of the call, from the nodes or from the runner's state leads to that node
\* and its result, under simple_runner and under thread_pool_runner.
C21_InputsSevered ==
  PreambleDone =>
    /\ \A n \in Range(pre.nodes) : node_inputs[n] = <<>>
    /\ \A m \in Range(pre.nodes) : \A n \in PNodes :
         (Readers(m) = {n} /\ has_result[n] /\ m \notin {h[1] : h \in Range(inputs)})
           => m \notin ReachedNodes

\* ================================================= the pool's bookkeeping
\* The places of runnable_queue that hold node n, through any handle.
QueuedAt(n) == {i \in 1..Len(pool.runnable_queue) : pool.runnable_queue[i][1] = n}

\* The workers that hold node n to call next() on its node_iterator or are
\* inside that next().
SteppedBy(n) == {i \in Workers : pool.w[i].pc \in {"step", "set"} /\ pool.w[i].cur[1] = n}

\* C22: under thread_pool_runner the node_iterator of a node is at every
\* moment at most once in runnable_queue and the workers taken together, so
\* no two workers step the same node, also when the node is reached through
\* several roots or through sub-result handles.
C22_QueuedOnce ==
  phase = "pool" =>
    \A n \in Nodes : Cardinality(QueuedAt(n)) + Cardinality(SteppedBy(n)) <= 1

\* The coordinator is about to take a ('wait', node, blockers) report from
\* report_queue (lines 524, 533).
WaitReportNext ==
  /\ phase = "pool"
  /\ pool.cpc = "loop"
  /\ pool.report_queue # <<>>
  /\ Head(pool.report_queue).t = "wait"

\* C23: when the coordinator of thread_pool_runner processes a
\* ('wait', node, blockers) report, node has no result and no blocker of the
\* report has one, in every interleaving: the asserts at lines 537 and 542
\* hold.
C23_WaitReportUnavailable ==
  WaitReportNext =>
    /\ ~IsAvailable(NS, Head(pool.report_queue).node)
    /\ \A b \in Range(Head(pool.report_queue).blockers) : ~IsAvailable(NS, b)

\* The graphs of Graphs whose bodies end with their one terminal value and
\* raise nothing.
QuietGraphs == {Graphs[1], Graphs[3], Graphs[4]}

\* The while loop of thread_pool_runner_run (lines 520-590) has been left in
\* the last call.
CoordLoopOver == runs >= 1 /\ runner.kind = "pool" /\ pool.cpc # "loop"

\* C24: for a graph whose bodies terminate without raising, when the
\* coordinator loop of thread_pool_runner(k) is over blocked_nodes and
\* blockings are empty and the call does not fail (with 'Unexpectedly blocked
\* nodes in the end.' or otherwise); the loop is over eventually when workers
\* and coordinator are scheduled fairly.
C24_LoopEndsUnblocked ==
  (CoordLoopOver /\ body \in QuietGraphs /\ hist.pending # {}) =>
    /\ DOMAIN pool.blocked_nodes = {}
    /\ DOMAIN pool.blockings = {}
    /\ pool.cexc = "none"
    /\ phase = "idle" => outcome = "ok"

\* The workers and the coordinator of the pool get to run.
SpecFair ==
  /\ Spec
  /\ \A i \in Workers : WF_vars(WCheckAbort(i)) /\ WF_vars(WGet(i))
                        /\ WF_vars(WStep(i)) /\ WF_vars(WSet(i))
  /\ WF_vars(CoordReport)
  /\ WF_vars(CoordDrain)

\* The coordinator loop, once entered, is left.
CoordLoopEnds == (phase = "pool" /\ pool.cpc = "loop") ~> (pool.cpc # "loop")

\* ============================================== simple_runner on later calls
\* C25: under simple_runner, when the for loop over a node's node_iterator
\* ends because the iterator is exhausted the node has its result, in every
\* sequence of run_graph calls, also over nodes that a failed call left
\* without a result: `assert input.is_available()` (line 452) never fails.
C25_ExhaustedIsAvailable ==
  (runs >= 1 /\ runner.kind = "simple") =>
    /\ outcome # "AssertionError"
    /\ phase = "simple" /\ pending_inputs # <<>> =>
         LET n == pending_inputs[Len(pending_inputs)][1]
         IN gen[n].st = "fin" => has_result[n]

\* ====================================================== NodeSubresultInput
\* The object that attribute a of node n holds.
Attr(n, a) == <<a, n>>

\* Recipe.result_names (line 158): next_fib is declared with
\* result=('a_next', 'b_next'), the other recipes have the one name 'result'.
ResultNames(rec) ==
  IF rec.func_name = "next_fib" THEN << <<"a", "next">>, <<"b", "next">> >>
  ELSE << <<"result">> >>

\* NodeSubresultInput.node_iterator (lines 239-241) of the handle h = node[i].
SubNodeIterator(h) == Attr(h[1], "node_iterator")

\* NodeSubresultInput.inputs (lines 242-244).
SubInputs(h) == Attr(h[1], "node_iterator")

\* NodeSubresultInput.name (lines 245-250): '%s.%s' of the name of the node
\* and the name of the result.
SubName(h) == [node |-> name[h[1]], result |-> ResultNames(recipe[h[1]])[h[2]]]

\* The sub-result handles node[i] that Node.__getitem__ makes (lines 336-341).
SubHandles == {h \in PHandles : h[2] > 0}

\* C26: a sub-result handle node[i] gives for is_available, wait,
\* node_iterator, inputs and name what its node gives (the name with the name
\* of the result appended), and its get() is item i of the result of the
\* node; so it is never available before its node.
C26_ProjectionDelegates ==
  \A h \in SubHandles :
    LET n == h[1]
    IN /\ IsAvailable(NS, h) = has_result[n]
       /\ WaitInputs(NS, h) = WaitInputs(NS, N(n))
       /\ SubNodeIterator(h) = Attr(n, "node_iterator")
       /\ SubInputs(h) = Attr(n, "inputs")
       /\ SubName(h).node = name[n]
       /\ SubName(h).result = ResultNames(recipe[n])[h[2]]
       /\ (has_result[n] /\ GetError(NS, h) = "none") => GetValue(NS, h) = <<result[n][h[2]]>>

\* ========================================================= the run methods
\* Node.run(context=d, runner=rn) (lines 300-302): run_graph((self,), **kwargs).
NodeRun(n, d, rn) == PrepRunAs(<<N(n)>>, d, rn, Call("Node.run", N(n), d, rn))

\* NodeSubresultInput.run(context=d, runner=rn) (lines 237-238):
\* run_graph((self,)), whatever the keyword arguments are.
SubRun(h, d, rn) ==
  PrepRunAs(<<h>>, NoDict, [kind |-> "simple", k |-> 0],
            Call("NodeSubresultInput.run", h, d, rn))

\* The specification SpecRun adds the two run methods to SpecAcr.
NextRun ==
  \/ NextAcr
  \/ \E n \in PNodes, d \in {NoDict} \cup Dicts, rn \in Runners : NodeRun(n, d, rn)
  \/ \E h \in SubHandles, d \in {NoDict} \cup Dicts, rn \in Runners : SubRun(h, d, rn)

SpecRun == InitAcr /\ [][NextRun]_vars

\* The last run_graph call was made by method m, and got through its preamble.
RunBy(m) == runs >= 1 /\ pre.call.m = m /\ pre.exc = "none"

\* The call passed the options on: the runner and the context of the run are
\* those given to the method (a context left out is a fresh dict).
OptionsPassed ==
  /\ runner = pre.call.rn
  /\ IF pre.call.d = NoDict THEN pre.dict \notin Dicts ELSE pre.dict = pre.call.d
  /\ inputs = <<pre.call.h>>

\* C27: NodeSubresultInput.run(**kwargs) does what Node.run(**kwargs) does:
\* the options given (context, runner) are the ones run_graph runs with, the
\* handle is the only root, and what is returned is the get() of the handle
\* after the run.
C27_SubresultRun ==
  /\ RunBy("Node.run") => OptionsPassed
  /\ RunBy("NodeSubresultInput.run") =>
       /\ OptionsPassed
       /\ (phase = "idle" /\ outcome = "ok") => IsAvailable(NS, pre.call.h)

\* ================================================ the coordinator's invariants
\* The coordinator of the last call has raised nothing of its own: every report
\* it took, it took whole (lines 533-584).
CoordClean ==
  runs >= 1 /\ runner.kind = "pool" /\ pool.cexc \notin {"AssertionError", "ValueError"}

\* w is in blockings[m] iff m is in blocked_nodes[w].
BlockingsInverse(p) ==
  \A w \in Handles, m \in Handles :
     (m \in DOMAIN p.blockings /\ w \in Range(p.blockings[m]))
       <=> (w \in DOMAIN p.blocked_nodes /\ m \in Range(p.blocked_nodes[w]))

ActiveBlockedDisjoint(p) == p.nonblocked_nodes \cap DOMAIN p.blocked_nodes = {}

\* Every blocker of a blocked node is active or blocked itself.
BlockersTracked(p) ==
  \A w \in DOMAIN p.blocked_nodes : \A m \in Range(p.blocked_nodes[w]) :
     m \in p.nonblocked_nodes \/ m \in DOMAIN p.blocked_nodes

DiscoveredCtx == UNION {CtxIn(pre.in0[n]) : n \in Range(pre.nodes)}

\* The last call, made with a dict or with no context, discovered a node one
\* of whose ContextInputs an earlier call had bound to a dict that is not the
\* dict of this call (no direct set_context call was made: every binding is
\* that of a run_graph call).
BoundToAnotherDict ==
  /\ pre.ncalls = 0
  /\ pre.dict # NotADict
  /\ \E x \in DiscoveredCtx : pre.ctx0[x.id] \notin {NoDict, pre.dict}

\* A step that is a call of run_graph.
RunGraphCalled == runs' = runs + 1

\* C29: a run_graph call that discovers a node whose ContextInput an earlier
\* call bound to another dict (the fresh {} of a call without context
\* included) raises RuntimeError('Context already set.') before any node is
\* stepped, and changes nothing of any node: results, generators, names,
\* inputs and context bindings are as they were.
C29_ContextAlreadySet ==
  [][(RunGraphCalled /\ BoundToAnotherDict') =>
       /\ outcome' = "ContextAlreadySet" /\ phase' = "idle"
       /\ hist'.stepped = {}
       /\ has_result' = has_result /\ result' = result /\ gen' = gen
       /\ name' = name /\ node_inputs' = node_inputs /\ context' = context]_vars

====
